---------------------------- MODULE Spec2Model ----------------------------
(***************************************************************************)
(* Model of the OBV-style used-vehicle valuation engine                    *)
(* (src/src/obv_hyderabad_engine.py, class OBVHyderabadEngine).            *)
(*                                                                         *)
(* Python floats are modelled as exact signed decimals (type Dec below):   *)
(* every constant of the engine is a finite decimal, and sums, differences,*)
(* products and truncations of finite decimals are computed without        *)
(* rounding.  Quotients are cut after 16 decimal places (DDiv).            *)
(***************************************************************************)
EXTENDS Integers, Sequences, FiniteSets, TLC

(***************************************************************************)
(* Exact decimal arithmetic.                                               *)
(* A magnitude is a little-endian sequence of limbs in 0..Base-1 without   *)
(* leading (most significant) zero limbs; <<>> is zero.                    *)
(* A Dec is [neg, mag, sc] and denotes (-1)^neg * mag / Base^sc, kept      *)
(* normalised: no low zero limb while sc > 0, and zero is never negative.  *)
(***************************************************************************)
Base == 100 * 100

RECURSIVE MagNorm(_)
MagNorm(m) ==
    IF m = <<>> THEN <<>>
    ELSE IF m[Len(m)] = 0 THEN MagNorm(SubSeq(m, 1, Len(m) - 1))
    ELSE m

MagOfNat(n) ==
    MagNorm(<<n % Base, (n \div Base) % Base, n \div (Base * Base)>>)

Limb(m, i) == IF i >= 1 /\ i <= Len(m) THEN m[i] ELSE 0

MaxOf(a, b) == IF a >= b THEN a ELSE b
MinOf(a, b) == IF a <= b THEN a ELSE b

RECURSIVE MagAddRec(_, _, _, _)
MagAddRec(a, b, i, carry) ==
    IF i > MaxOf(Len(a), Len(b))
    THEN (IF carry = 0 THEN <<>> ELSE <<carry>>)
    ELSE LET s == Limb(a, i) + Limb(b, i) + carry
         IN  <<s % Base>> \o MagAddRec(a, b, i + 1, s \div Base)

MagAdd(a, b) == MagNorm(MagAddRec(a, b, 1, 0))

\* a - b for a >= b
RECURSIVE MagSubRec(_, _, _, _)
MagSubRec(a, b, i, borrow) ==
    IF i > Len(a) THEN <<>>
    ELSE LET s == Limb(a, i) - Limb(b, i) - borrow
         IN  IF s < 0
             THEN <<s + Base>> \o MagSubRec(a, b, i + 1, 1)
             ELSE <<s>> \o MagSubRec(a, b, i + 1, 0)

MagSub(a, b) == MagNorm(MagSubRec(a, b, 1, 0))

\* -1, 0, 1 as a < b, a = b, a > b (both normalised)
RECURSIVE MagCmpRec(_, _, _)
MagCmpRec(a, b, i) ==
    IF i = 0 THEN 0
    ELSE IF a[i] < b[i] THEN -1
    ELSE IF a[i] > b[i] THEN 1
    ELSE MagCmpRec(a, b, i - 1)

MagCmp(a, b) ==
    IF Len(a) < Len(b) THEN -1
    ELSE IF Len(a) > Len(b) THEN 1
    ELSE MagCmpRec(a, b, Len(a))

\* a * n for one limb n
RECURSIVE MagMulLimbRec(_, _, _, _)
MagMulLimbRec(a, n, i, carry) ==
    IF i > Len(a)
    THEN (IF carry = 0 THEN <<>> ELSE <<carry>>)
    ELSE LET s == a[i] * n + carry
         IN  <<s % Base>> \o MagMulLimbRec(a, n, i + 1, s \div Base)

Zeros(k) == [i \in 1..k |-> 0]

RECURSIVE MagMulRec(_, _, _)
MagMulRec(a, b, j) ==
    IF j > Len(b) THEN <<>>
    ELSE MagAdd(Zeros(j - 1) \o MagMulLimbRec(a, b[j], 1, 0),
                MagMulRec(a, b, j + 1))

MagMul(a, b) == MagNorm(MagMulRec(a, b, 1))

\* quotient of a by a small positive n (n * Base fits an integer), truncated
RECURSIVE MagDivSmallRec(_, _, _, _)
MagDivSmallRec(a, n, i, rem) ==
    IF i = 0 THEN <<>>
    ELSE LET cur == rem * Base + a[i]
         IN  MagDivSmallRec(a, n, i - 1, cur % n) \o <<cur \div n>>

MagDivSmall(a, n) == MagNorm(MagDivSmallRec(a, n, Len(a), 0))

RECURSIVE LowZeros(_, _)
LowZeros(m, k) ==
    IF k < Len(m) /\ m[k + 1] = 0 THEN LowZeros(m, k + 1) ELSE k

DNorm(d) ==
    LET m == MagNorm(d.mag)
    IN  IF m = <<>> THEN [neg |-> FALSE, mag |-> <<>>, sc |-> 0]
        ELSE LET z == MinOf(LowZeros(m, 0), d.sc)
             IN  [neg |-> d.neg, mag |-> SubSeq(m, z + 1, Len(m)), sc |-> d.sc - z]

\* the decimal n / Base^sc of a natural n
DN(n, sc) == DNorm([neg |-> FALSE, mag |-> MagOfNat(n), sc |-> sc])
DInt(n) == IF n >= 0 THEN DN(n, 0)
           ELSE DNorm([neg |-> TRUE, mag |-> MagOfNat(-n), sc |-> 0])
DZero == DN(0, 0)
DOne  == DN(1, 0)

DNeg(d) == IF d.mag = <<>> THEN d ELSE [d EXCEPT !.neg = ~d.neg]

\* the magnitude of d scaled to sc >= d.sc fractional limbs
MagAt(d, sc) == IF d.mag = <<>> THEN <<>> ELSE Zeros(sc - d.sc) \o d.mag

DAdd(x, y) ==
    LET sc == MaxOf(x.sc, y.sc)
        a  == MagAt(x, sc)
        b  == MagAt(y, sc)
        c  == MagCmp(a, b)
    IN  IF x.neg = y.neg
        THEN DNorm([neg |-> x.neg, mag |-> MagAdd(a, b), sc |-> sc])
        ELSE IF c >= 0
             THEN DNorm([neg |-> x.neg, mag |-> MagSub(a, b), sc |-> sc])
             ELSE DNorm([neg |-> y.neg, mag |-> MagSub(b, a), sc |-> sc])

DSub(x, y) == DAdd(x, DNeg(y))

DMul(x, y) ==
    DNorm([neg |-> (x.neg # y.neg), mag |-> MagMul(x.mag, y.mag), sc |-> x.sc + y.sc])

\* -1, 0, 1 as x < y, x = y, x > y
DCmp(x, y) ==
    LET d == DSub(x, y)
    IN  IF d.mag = <<>> THEN 0 ELSE IF d.neg THEN -1 ELSE 1

DLe(x, y) == DCmp(x, y) <= 0
DLt(x, y) == DCmp(x, y) < 0
DMax(x, y) == IF DLe(y, x) THEN x ELSE y
DMin(x, y) == IF DLe(x, y) THEN x ELSE y
DAbs(d) == [d EXCEPT !.neg = FALSE]

\* x / Base^k, exact
DShift(x, k) == DNorm([x EXCEPT !.sc = x.sc + k])

RECURSIVE MagToNat(_, _)
MagToNat(m, i) == IF i > Len(m) THEN 0 ELSE m[i] + Base * MagToNat(m, i + 1)

\* Python int(x): truncation toward zero, as an integer
DTrunc(x) ==
    LET ip == IF Len(x.mag) > x.sc THEN SubSeq(x.mag, x.sc + 1, Len(x.mag)) ELSE <<>>
        n  == MagToNat(ip, 1)
    IN  IF x.neg THEN -n ELSE n

\* the largest q in lo..hi with b * q <= cur (b * lo <= cur is given)
RECURSIVE MagQuotLimb(_, _, _, _)
MagQuotLimb(b, cur, lo, hi) ==
    IF lo = hi THEN lo
    ELSE LET mid == (lo + hi + 1) \div 2
         IN  IF MagCmp(MagNorm(MagMulLimbRec(b, mid, 1, 0)), cur) <= 0
             THEN MagQuotLimb(b, cur, mid, hi)
             ELSE MagQuotLimb(b, cur, lo, mid - 1)

\* long division of a by b > 0, from limb i of a down: the limbs of the
\* quotient, most significant first
RECURSIVE MagDivRec(_, _, _, _)
MagDivRec(a, b, i, rem) ==
    IF i = 0 THEN <<>>
    ELSE LET cur == MagNorm(<<a[i]>> \o rem)
             ql  == MagQuotLimb(b, cur, 0, Base - 1)
         IN  <<ql>> \o MagDivRec(a, b, i - 1,
                                 MagSub(cur, MagNorm(MagMulLimbRec(b, ql, 1, 0))))

Reverse(seq) == [i \in 1..Len(seq) |-> seq[Len(seq) + 1 - i]]

MagDiv(a, b) == MagNorm(Reverse(MagDivRec(a, b, Len(a), <<>>)))

\* Division is the one operation whose result need not be a finite decimal:
\* the quotient is carried to DivLimbs limbs (16 decimal places) and cut there.
DivLimbs == 2 + 2

DDiv(x, y) ==
    LET sc == MaxOf(x.sc, y.sc)
        a  == Zeros(DivLimbs) \o MagAt(x, sc)
        b  == MagAt(y, sc)
    IN  DNorm([neg |-> (x.neg # y.neg), mag |-> MagDiv(MagNorm(a), b), sc |-> DivLimbs])

\* the integer part of x (toward zero) as a decimal
DFix(x) ==
    DNorm([neg |-> x.neg,
           mag |-> IF Len(x.mag) > x.sc THEN SubSeq(x.mag, x.sc + 1, Len(x.mag)) ELSE <<>>,
           sc  |-> 0])

IsOdd(d) == d.mag # <<>> /\ d.sc = 0 /\ d.mag[1] % 2 = 1

\* a >= 0 rounded half to even, t being its integer part
RoundFrom(a, t) ==
    IF DCmp(DSub(a, t), DN(5000, 1)) > 0 \/ (DSub(a, t) = DN(5000, 1) /\ IsOdd(t))
    THEN DAdd(t, DOne)
    ELSE t

\* round half to even to the integer
DRound0(x) ==
    IF x.neg THEN DNeg(RoundFrom(DAbs(x), DFix(DAbs(x)))) ELSE RoundFrom(x, DFix(x))

\* Python round(x, 2) and round(x, 4)
Round2(x) == DMul(DRound0(DMul(x, DInt(100))), DN(100, 1))
Round4(x) == DShift(DRound0(DMul(x, DInt(Base))), 1)

RECURSIVE DPow(_, _)
DPow(x, n) == IF n = 0 THEN DOne ELSE DMul(x, DPow(x, n - 1))

\* n hundredths, n ten-thousandths
Pct(n) == IF n >= 0 THEN DN(n * 100, 1) ELSE DNeg(DN((-n) * 100, 1))
Bp(n)  == DN(n, 1)

(***************************************************************************)
(* Static tables of OBVHyderabadEngine.                                    *)
(***************************************************************************)
FuelTypes == {"Petrol", "Diesel", "CNG", "Electric"}

STANDARD_MILEAGE(fuel) ==
    CASE fuel = "Petrol"   -> 11000
      [] fuel = "Diesel"   -> 16500
      [] fuel = "CNG"      -> 20000
      [] fuel = "Electric" -> 11000

Rate_year_0_1    == Pct(17)
Rate_year_1_3    == Pct(11)
Rate_year_3_5    == Pct(9)
Rate_year_5_plus == Pct(6)

(***************************************************************************)
(* calculate_segmented_depreciation.  The running state st is              *)
(* [rv |-> remaining_value, bd |-> breakdown]; the breakdown dict is the   *)
(* sequence of its items in insertion order, the key year_<y> being        *)
(* [y |-> y, partial |-> FALSE], year_<y>_partial [y |-> y, partial |->    *)
(* TRUE] and year_0_1 [y |-> 1, partial |-> FALSE].                        *)
(***************************************************************************)
Key(y, partial) == [y |-> y, partial |-> partial]

\* the cut entered in the breakdown and not taken off the value (not the code)
CutNotTaken(st, year_dep, key) ==
    [rv |-> st.rv,
     bd |-> Append(st.bd, [key |-> key, amount |-> year_dep])]

\* remaining_value -= year_dep ; breakdown[key] = year_dep
Cut(st, year_dep, key) ==
    [rv |-> DSub(st.rv, year_dep),
     bd |-> Append(st.bd, [key |-> key, amount |-> year_dep])]

\* for i in range(n): year_dep = remaining_value * rate; ... breakdown[f'year_{i+first}']
RECURSIVE FullYears(_, _, _, _, _)
FullYears(st, rate, i, n, first) ==
    IF i >= n THEN st
    ELSE FullYears(Cut(st, DMul(st.rv, rate), Key(i + first, FALSE)),
                   rate, i + 1, n, first)

\* a partial entry even when no part of a year is left (not the code)
InBracketAlwaysPartial(st, rate, years_in_bracket, first) ==
    LET n       == DTrunc(years_in_bracket)
        full    == FullYears(st, rate, 0, n, first)
        partial == DSub(years_in_bracket, DInt(n))
    IN  Cut(full, DMul(DMul(full.rv, rate), partial), Key(n + first, TRUE))

\* the loop over int(years_in_bracket) full years, then the partial year if any
InBracket(st, rate, years_in_bracket, first) ==
    LET n       == DTrunc(years_in_bracket)
        full    == FullYears(st, rate, 0, n, first)
        partial == DSub(years_in_bracket, DInt(n))
    IN  IF DLt(DZero, partial)
        THEN Cut(full, DMul(DMul(full.rv, rate), partial), Key(n + first, TRUE))
        ELSE full

\* age_years <= 1
DepFirstYear(age_years, base_price) ==
    LET depreciation == DMul(DMul(base_price, Rate_year_0_1), age_years)
    IN  [rv |-> DSub(base_price, depreciation),
         bd |-> <<[key |-> Key(1, FALSE), amount |-> depreciation]>>]

\* else: the full first year
DepFullFirstYear(base_price) ==
    Cut([rv |-> base_price, bd |-> <<>>], DMul(base_price, Rate_year_0_1), Key(1, FALSE))

\* 1 < age_years <= 3, a single multi-year cut (not the code)
DepYears1to3Flat(st, age_years) ==
    Cut(st, DMul(DMul(st.rv, Rate_year_1_3), DSub(age_years, DInt(1))), Key(2, FALSE))

\* 1 < age_years <= 3
DepYears1to3(st, age_years) ==
    InBracket(st, Rate_year_1_3, DSub(age_years, DInt(1)), 2)

\* 3 < age_years <= 5 without the full years 1-3 (not the code)
DepYears3to5Skip(st, age_years) ==
    InBracket(st, Rate_year_3_5, DSub(age_years, DInt(3)), 4)

\* 3 < age_years <= 5
DepYears3to5(st, age_years) ==
    InBracket(FullYears(st, Rate_year_1_3, 0, 2, 2),
              Rate_year_3_5, DSub(age_years, DInt(3)), 4)

\* age_years > 5
DepYears5plus(st, age_years) ==
    InBracket(FullYears(FullYears(st, Rate_year_1_3, 0, 2, 2), Rate_year_3_5, 0, 2, 4),
              Rate_year_5_plus, DSub(age_years, DInt(5)), 6)

calculate_segmented_depreciation(age_years, base_price) ==
    LET st == IF DLe(age_years, DInt(1)) THEN DepFirstYear(age_years, base_price)
              ELSE IF DLe(age_years, DInt(3))
                   THEN DepYears1to3(DepFullFirstYear(base_price), age_years)
              ELSE IF DLe(age_years, DInt(5))
                   THEN DepYears3to5(DepFullFirstYear(base_price), age_years)
              ELSE DepYears5plus(DepFullFirstYear(base_price), age_years)
    IN  [value |-> st.rv, breakdown |-> st.bd,
         total_depreciation |-> DSub(base_price, st.rv),
         depreciation_percentage |->
             DMul(DDiv(DSub(base_price, st.rv), base_price), DInt(100))]

(***************************************************************************)
(* Entries of the warnings and recommendations lists: the message's tag    *)
(* and the values its f-string formats: numbers as integers in args,       *)
(* strings in text.                                                        *)
(***************************************************************************)
Msg(tag, args) == [tag |-> tag, args |-> args, text |-> <<>>]

\* an entry whose f-string also formats strings (a make, a fuel type, ...)
MsgT(tag, text, args) == [tag |-> tag, args |-> args, text |-> text]

\* f"{x:.1f}" of a non-negative x, in tenths (round half up)
Tenths(x) == DTrunc(DAdd(DMul(x, DInt(10)), Pct(50)))

(***************************************************************************)
(* calculate_odometer_adjustment.  The tier steps work on                  *)
(* t = [rem |-> remaining_deviation, pen |-> penalty_percentage,           *)
(*      warn |-> warnings appended by the tiers].                          *)
(***************************************************************************)
PerTenThousand(km) == DShift(km, 1)

\* Tier 1 charged at the tier-2 rate (not the code)
Tier1Steep(t) ==
    IF DLt(DZero, t.rem)
    THEN LET tier1_km == DMin(t.rem, DInt(40000))
         IN  [t EXCEPT !.pen = DAdd(@, DMul(PerTenThousand(tier1_km), DInt(4))),
                       !.rem = DSub(@, tier1_km)]
    ELSE t

\* Tier 1: 0-40k excess, 2% per 10,000 km
Tier1(t) ==
    IF DLt(DZero, t.rem)
    THEN LET tier1_km == DMin(t.rem, DInt(40000))
         IN  [t EXCEPT !.pen = DAdd(@, DMul(PerTenThousand(tier1_km), DInt(2))),
                       !.rem = DSub(@, tier1_km)]
    ELSE t

\* Tier 2: 40k-90k excess, 4% per 10,000 km
Tier2(t) ==
    IF DLt(DZero, t.rem)
    THEN LET tier2_km == DMin(t.rem, DInt(50000))
         IN  [t EXCEPT !.pen = DAdd(@, DMul(PerTenThousand(tier2_km), DInt(4))),
                       !.rem = DSub(@, tier2_km)]
    ELSE t

\* Tier 3 charged in proportion to the kilometres consumed (not the code)
Tier3Proportional(t) ==
    IF DLt(DZero, t.rem)
    THEN LET tier3_km == DMin(t.rem, DInt(10000))
         IN  [t EXCEPT !.pen = DAdd(@, DMul(PerTenThousand(tier3_km), DInt(8))),
                       !.rem = DSub(@, tier3_km),
                       !.warn = IF DLt(DZero, tier3_km)
                                THEN Append(@, Msg("barrier_100k", <<>>)) ELSE @]
    ELSE t

\* Tier 3: 90k-100k excess, flat 8% and the 100k-barrier warning
Tier3(t) ==
    IF DLt(DZero, t.rem)
    THEN LET tier3_km == DMin(t.rem, DInt(10000))
         IN  [t EXCEPT !.pen = DAdd(@, DInt(8)),
                       !.rem = DSub(@, tier3_km),
                       !.warn = IF DLt(DZero, tier3_km)
                                THEN Append(@, Msg("barrier_100k", <<>>)) ELSE @]
    ELSE t

\* Tier 4: beyond 100k excess, 6% per 10,000 km
Tier4(t) ==
    IF DLt(DZero, t.rem)
    THEN [t EXCEPT !.pen = DAdd(@, DMul(PerTenThousand(t.rem), DInt(6)))]
    ELSE t

\* the warning without the cap on the deviation (not the code)
TamperCheckUnclamped(age_years, actual_odometer, expected_odometer, odometer_deviation) ==
    IF DLt(DInt(actual_odometer), DMul(age_years, DInt(2000)))
    THEN [warn |-> <<Msg("tamper", <<actual_odometer, Tenths(age_years)>>)>>,
          dev  |-> odometer_deviation]
    ELSE [warn |-> <<>>, dev |-> odometer_deviation]

\* the tamper check: the warning, and the deviation capped at -30% of expected
TamperCheck(age_years, actual_odometer, expected_odometer, odometer_deviation) ==
    IF DLt(DInt(actual_odometer), DMul(age_years, DInt(2000)))
    THEN [warn |-> <<Msg("tamper", <<actual_odometer, Tenths(age_years)>>)>>,
          dev  |-> DMax(odometer_deviation,
                        DMul(DInt(-expected_odometer), Pct(30)))]
    ELSE [warn |-> <<>>, dev |-> odometer_deviation]

\* the penalty added to the multiplier (not the code)
UsageFactorAdded(penalty_percentage) ==
    DMax(Pct(40), DAdd(DOne, DMul(penalty_percentage, Pct(1))))

\* the multiplier floored at 30% (not the code)
UsageFactorLowFloor(penalty_percentage) ==
    DMax(DSub(DOne, DMul(penalty_percentage, Pct(1))), Pct(30))

\* usage_factor = max(1.0 - penalty_percentage / 100.0, 0.4)
UsageFactor(penalty_percentage) ==
    DMax(DSub(DOne, DMul(penalty_percentage, Pct(1))), Pct(40))

\* the premium without its cap (not the code)
PremiumUncapped(odometer_deviation) ==
    DMul(PerTenThousand(DAbs(odometer_deviation)), Bp(15000))

\* premium_percentage = min((abs_deviation / 10000) * 1.5, 10.0)
PremiumPercentage(odometer_deviation) ==
    DMin(DMul(PerTenThousand(DAbs(odometer_deviation)), Bp(15000)), DInt(10))

\* The return value, the local penalty_percentage, and the entries the call
\* appends to self.warnings and self.recommendations, in order.
calculate_odometer_adjustment(age_years, actual_odometer, fuel_type) ==
    LET standard_annual_km == STANDARD_MILEAGE(fuel_type)
        expected_odometer  == DTrunc(DMul(age_years, DInt(standard_annual_km)))
        tc  == TamperCheck(age_years, actual_odometer, expected_odometer,
                           DInt(actual_odometer - expected_odometer))
        odometer_deviation == tc.dev
        t0  == [rem |-> odometer_deviation, pen |-> DZero, warn |-> <<>>]
        t4  == Tier4(Tier3(Tier2(Tier1(t0))))
        premium_percentage == PremiumPercentage(odometer_deviation)
        penalty_percentage ==
               IF DLt(DZero, odometer_deviation) THEN t4.pen
               ELSE IF DLt(odometer_deviation, DZero) THEN DNeg(premium_percentage)
               ELSE DZero
    IN  [usage_factor       |-> UsageFactor(penalty_percentage),
         odometer_deviation |-> odometer_deviation,
         expected_odometer  |-> expected_odometer,
         penalty_percentage |-> penalty_percentage,
         warnings |-> tc.warn \o (IF DLt(DZero, odometer_deviation) THEN t4.warn ELSE <<>>),
         recommendations |->
             IF DLt(odometer_deviation, DZero)
             THEN <<Msg("low_mileage", <<actual_odometer, expected_odometer>>)>>
             ELSE <<>>]

(***************************************************************************)
(* calculate_condition_score on the 16 inspection fields of a VehicleInput.*)
(***************************************************************************)
\* dict.get(key, default) of a score table
Get(table, key, default) == IF key \in DOMAIN table THEN table[key] ELSE default

smoke_scores == ("None" :> 10 @@ "White" :> 3 @@ "Black" :> 0)
noise_scores == ("Normal" :> 10 @@ "Slight" :> 6 @@ "Heavy" :> 0)
trans_scores == ("Smooth" :> 10 @@ "Rough" :> 5 @@ "Slipping" :> 0)
dent_scores  == ("None" :> 15 @@ "Minor" :> 10 @@ "Moderate" :> 5 @@ "Severe" :> 0)
susp_scores  == ("Excellent" :> 5 @@ "Good" :> 4 @@ "Fair" :> 2 @@ "Poor" :> 0)
brake_scores == ("Excellent" :> 3 @@ "Good" :> 2 @@ "Fair" :> 1 @@ "Poor" :> 0)
int_scores   == ("Excellent" :> 5 @@ "Good" :> 3 @@ "Fair" :> 1 @@ "Poor" :> 0)

Item(key, points) == [key |-> key, points |-> points]

RECURSIVE SumPoints(_)
SumPoints(items) ==
    IF items = <<>> THEN 0 ELSE Head(items).points + SumPoints(Tail(items))

\* frame damage scored as no points instead of a deduction (not the code)
FramePointsZero(vehicle) == IF vehicle.frame_damage THEN 0 ELSE 5

FramePoints(vehicle) == IF vehicle.frame_damage THEN -20 ELSE 5

\* 1. Engine/Transmission
EngineItems(vehicle) ==
    <<Item("frame_damage", FramePoints(vehicle)),
      Item("engine_smoke", Get(smoke_scores, vehicle.engine_smoke, 5)),
      Item("engine_noise", Get(noise_scores, vehicle.engine_noise, 5)),
      Item("transmission", Get(trans_scores, vehicle.transmission_condition, 5))>>

EngineWarnings(vehicle) ==
    (IF vehicle.frame_damage THEN <<Msg("frame_damage", <<>>)>> ELSE <<>>)
      \o (IF vehicle.engine_smoke \in {"White", "Black"}
          THEN <<Msg("engine_smoke", <<IF vehicle.engine_smoke = "White" THEN 1 ELSE 2>>)>>
          ELSE <<>>)

\* 2. Body/Frame
BodyItems(vehicle) ==
    <<Item("dents_scratches", Get(dent_scores, vehicle.dents_scratches, 7)),
      Item("repainted", IF vehicle.repainted THEN 0 ELSE 5),
      Item("rust", IF vehicle.rust_present THEN 0 ELSE 5)>>

\* tire tread scored 7 from 50% on (not the code)
TirePointsLax(tire_tread) ==
    IF tire_tread >= 50 THEN 7
    ELSE IF tire_tread >= 30 THEN 2
    ELSE 0

TirePoints(tire_tread) ==
    IF tire_tread >= 75 THEN 7
    ELSE IF tire_tread >= 50 THEN 5
    ELSE IF tire_tread >= 30 THEN 2
    ELSE 0

\* 3. Tires/Suspension
MechanicalItems(vehicle) ==
    <<Item("tire_tread", TirePoints(vehicle.tire_tread)),
      Item("suspension", Get(susp_scores, vehicle.suspension_condition, 2)),
      Item("brakes", Get(brake_scores, vehicle.brake_condition, 1))>>

MechanicalWarnings(vehicle) ==
    IF vehicle.tire_tread < 30 THEN <<Msg("tires_worn", <<>>)>> ELSE <<>>

\* 4. Electrical/Interior
ComfortItems(vehicle) ==
    <<Item("ac", IF vehicle.ac_working THEN 5 ELSE 0),
      Item("electrical", IF vehicle.electrical_issues THEN 0 ELSE 5),
      Item("interior", Get(int_scores, vehicle.interior_condition, 2))>>

\* electrical issues scored but not reported (not the code)
ComfortWarningsSilent(vehicle) == <<>>

ComfortWarnings(vehicle) ==
    IF vehicle.electrical_issues THEN <<Msg("electrical", <<>>)>> ELSE <<>>

\* 5. Documentation
DocItems(vehicle) ==
    <<Item("service_history", IF vehicle.service_history THEN 5 ELSE 0),
      Item("insurance", IF vehicle.insurance_valid THEN 3 ELSE 0),
      Item("accident_history", IF vehicle.accident_history THEN 0 ELSE 2)>>

DocWarnings(vehicle) ==
    IF vehicle.accident_history THEN <<Msg("accident_history", <<>>)>> ELSE <<>>

\* the engine share doubled (not the code)
WeightedTotalEngineTwice(engine_score, body_score, mechanical_score, comfort_score, doc_score) ==
    2 * engine_score + body_score + mechanical_score + comfort_score + doc_score

\* (engine_score / 35) * 35 + ... + (doc_score / 10) * 10: every quotient is
\* multiplied back by its divisor, which leaves the sum of the sub-scores
WeightedTotal(engine_score, body_score, mechanical_score, comfort_score, doc_score) ==
    engine_score + body_score + mechanical_score + comfort_score + doc_score

\* the grade thresholds one point lower (not the code)
GradeOfLax(total_score) ==
    IF total_score >= 89 THEN "Excellent"
    ELSE IF total_score >= 74 THEN "Very Good"
    ELSE IF total_score >= 49 THEN "Good"
    ELSE "Fair"

GradeOf(total_score) ==
    IF total_score >= 90 THEN "Excellent"
    ELSE IF total_score >= 75 THEN "Very Good"
    ELSE IF total_score >= 50 THEN "Good"
    ELSE "Fair"

\* The return value, the five local sub-scores, and the entries the call
\* appends to self.warnings, in order.
calculate_condition_score(vehicle) ==
    LET engine_score     == SumPoints(EngineItems(vehicle))
        body_score       == SumPoints(BodyItems(vehicle))
        mechanical_score == SumPoints(MechanicalItems(vehicle))
        comfort_score    == SumPoints(ComfortItems(vehicle))
        doc_score        == SumPoints(DocItems(vehicle))
        total_score ==
            MaxOf(0, MinOf(100, WeightedTotal(engine_score, body_score,
                                              mechanical_score, comfort_score, doc_score)))
    IN  [score |-> total_score,
         grade |-> GradeOf(total_score),
         breakdown |-> EngineItems(vehicle) \o BodyItems(vehicle)
                         \o MechanicalItems(vehicle) \o ComfortItems(vehicle)
                         \o DocItems(vehicle),
         sub |-> [engine |-> engine_score, body |-> body_score,
                  mechanical |-> mechanical_score, comfort |-> comfort_score,
                  doc |-> doc_score],
         warnings |-> EngineWarnings(vehicle) \o MechanicalWarnings(vehicle)
                        \o ComfortWarnings(vehicle) \o DocWarnings(vehicle)]

\* get_condition_multiplier
\* a schedule that rewards the grade Good
ConditionMultiplierGoodPremium(grade) ==
    CASE grade = "Excellent" -> Pct(110)
      [] grade = "Very Good" -> Pct(105)
      [] grade = "Good"      -> Pct(102)
      [] grade = "Fair"      -> Pct(85)

get_condition_multiplier(grade) ==
    CASE grade = "Excellent" -> Pct(110)
      [] grade = "Very Good" -> Pct(105)
      [] grade = "Good"      -> Pct(100)
      [] grade = "Fair"      -> Pct(85)

(***************************************************************************)
(* Inspection inputs.  Each enumeration field ranges over its vocabulary   *)
(* and one string outside it, which the score tables answer with their     *)
(* default.    The inputs of the condition calls are the base records with   *)
(* up to two fields changed.                                               *)
(***************************************************************************)
FieldValues ==
    [frame_damage           |-> BOOLEAN,
     dents_scratches        |-> {"None", "Minor", "Moderate", "Severe", "Good"},
     repainted              |-> BOOLEAN,
     engine_smoke           |-> {"None", "White", "Black", "Good"},
     tire_tread             |-> {0, 29, 30, 50, 74, 75, 100},
     ac_working             |-> BOOLEAN,
     electrical_issues      |-> BOOLEAN,
     service_history        |-> BOOLEAN,
     insurance_valid        |-> BOOLEAN,
     accident_history       |-> BOOLEAN,
     engine_noise           |-> {"Normal", "Slight", "Heavy", "Good"},
     transmission_condition |-> {"Smooth", "Rough", "Slipping", "Good"},
     suspension_condition   |-> {"Excellent", "Good", "Fair", "Poor", "Average"},
     brake_condition        |-> {"Excellent", "Good", "Fair", "Poor", "Average"},
     interior_condition     |-> {"Excellent", "Good", "Fair", "Poor", "Average"},
     rust_present           |-> BOOLEAN]

Fields == DOMAIN FieldValues

\* the inspection defaults of the VehicleInput dataclass
DefaultInspection ==
    [frame_damage |-> FALSE, dents_scratches |-> "Minor", repainted |-> FALSE,
     engine_smoke |-> "None", tire_tread |-> 75, ac_working |-> TRUE,
     electrical_issues |-> FALSE, service_history |-> TRUE, insurance_valid |-> TRUE,
     accident_history |-> FALSE, engine_noise |-> "Normal",
     transmission_condition |-> "Smooth", suspension_condition |-> "Good",
     brake_condition |-> "Good", interior_condition |-> "Good", rust_present |-> FALSE]

BestInspection ==
    [DefaultInspection EXCEPT !.dents_scratches = "None", !.suspension_condition = "Excellent",
                              !.brake_condition = "Excellent",
                              !.interior_condition = "Excellent"]

WorstInspection ==
    [frame_damage |-> TRUE, dents_scratches |-> "Severe", repainted |-> TRUE,
     engine_smoke |-> "Black", tire_tread |-> 0, ac_working |-> FALSE,
     electrical_issues |-> TRUE, service_history |-> FALSE, insurance_valid |-> FALSE,
     accident_history |-> TRUE, engine_noise |-> "Heavy",
     transmission_condition |-> "Slipping", suspension_condition |-> "Poor",
     brake_condition |-> "Poor", interior_condition |-> "Poor", rust_present |-> TRUE]

\* every graded field rated "Good", nothing reported
GoodInspection ==
    [DefaultInspection EXCEPT !.dents_scratches = "Good", !.engine_smoke = "Good",
                              !.engine_noise = "Good", !.transmission_condition = "Good"]

BaseInspections == {BestInspection, DefaultInspection, GoodInspection, WorstInspection}

\* the record v with field f set to x
WithField(v, f, x) == [v EXCEPT ![f] = x]

(***************************************************************************)
(* calculate_transaction_prices, and the procurement range of valuation.   *)
(***************************************************************************)
DEALER_MARGIN      == Pct(12)
WHOLESALE_DISCOUNT == Pct(8)
GST_RATE           == Pct(18)

C2BPrice(fmv) == DMul(fmv, DSub(DOne, DEALER_MARGIN))

\* GST charged on the whole retail price instead of the margin (not the code)
B2CPriceTaxAll(fmv) ==
    LET margin_amount == DMul(fmv, DEALER_MARGIN)
    IN  DMul(DAdd(fmv, margin_amount), DAdd(DOne, GST_RATE))

B2CPrice(fmv) ==
    LET margin_amount == DMul(fmv, DEALER_MARGIN)
        gst_on_margin == DMul(margin_amount, GST_RATE)
    IN  DAdd(DAdd(fmv, margin_amount), gst_on_margin)

\* the wholesale discount added instead of subtracted (not the code)
B2BPriceSignSlip(fmv) ==
    DMul(fmv, DAdd(DSub(DOne, DEALER_MARGIN), WHOLESALE_DISCOUNT))

B2BPrice(fmv) ==
    DMul(fmv, DSub(DSub(DOne, DEALER_MARGIN), WHOLESALE_DISCOUNT))

calculate_transaction_prices(fmv) ==
    [c2c |-> fmv, c2b |-> C2BPrice(fmv), b2c |-> B2CPrice(fmv), b2b |-> B2BPrice(fmv)]

\* trade_in_min, trade_in_max of valuation
ProcurementRange(transaction_prices) ==
    [trade_in_min |-> DMul(transaction_prices.c2b, Pct(95)),
     trade_in_max |-> DMul(transaction_prices.c2b, Pct(100))]

(***************************************************************************)
(* Strings: str.lower, str.capitalize and the substring test `a in b`.     *)
(***************************************************************************)
LowerCase == "abcdefghijklmnopqrstuvwxyz"
UpperCase == "ABCDEFGHIJKLMNOPQRSTUVWXYZ"

\* ch, or the letter at its position of `from` taken from `to`
MapChar(ch, from, to) ==
    IF \E i \in 1..Len(from) : SubSeq(from, i, i) = ch
    THEN LET i == CHOOSE i \in 1..Len(from) : SubSeq(from, i, i) = ch
         IN  SubSeq(to, i, i)
    ELSE ch

RECURSIVE Lower(_)
Lower(str) ==
    IF str = "" THEN ""
    ELSE MapChar(SubSeq(str, 1, 1), UpperCase, LowerCase) \o Lower(SubSeq(str, 2, Len(str)))

Capitalize(str) ==
    IF str = "" THEN ""
    ELSE MapChar(SubSeq(str, 1, 1), LowerCase, UpperCase) \o Lower(SubSeq(str, 2, Len(str)))

\* a in b
Contains(a, b) ==
    \E i \in 1..(Len(b) - Len(a) + 1) : SubSeq(b, i, i + Len(a) - 1) = a

\* str.replace(' ', '_')
RECURSIVE Underscored(_)
Underscored(str) ==
    IF str = "" THEN ""
    ELSE (IF SubSeq(str, 1, 1) = " " THEN "_" ELSE SubSeq(str, 1, 1))
         \o Underscored(SubSeq(str, 2, Len(str)))

\* the value of the first item of an insertion-ordered dict whose key
\* satisfies Hit, or default: `for key, v in d.items(): if ...: break`
FirstHit(items, Hit(_), default) ==
    IF \E i \in 1..Len(items) : Hit(items[i][1])
    THEN items[CHOOSE i \in 1..Len(items) :
                   /\ Hit(items[i][1])
                   /\ \A j \in 1..(i - 1) : ~Hit(items[j][1])][2]
    ELSE default

\* `{x:,.0f}` of a price: the nearest integer
Rupees(x) == DTrunc(DRound0(x))

(***************************************************************************)
(* calculate_ownership_factor and calculate_hyderabad_factor.              *)
(***************************************************************************)
OWNERSHIP_MULTIPLIERS == (1 :> Pct(100)) @@ (2 :> Pct(93)) @@ (3 :> Pct(85)) @@ (4 :> Pct(75))

\* owner counts beyond the table taken as a first owner (not the code)
OwnershipFactorDefaultOne(owners) == Get(OWNERSHIP_MULTIPLIERS, owners, Pct(100))

calculate_ownership_factor(owners) == Get(OWNERSHIP_MULTIPLIERS, owners, Pct(75))

HYDERABAD_FACTORS ==
    [diesel_premium |-> Pct(105), tech_hub_premium |-> Pct(103), default |-> Pct(100)]

tech_hub_models == <<"baleno", "i20", "creta", "venue", "seltos", "city", "verna">>

DieselPremium(fuel_type, age_years) == fuel_type = "Diesel" /\ DLt(DInt(5), age_years)

\* the high-demand band open at 5 years (not the code)
TechHubPremiumOpen(model, age_years) ==
    /\ \E i \in 1..Len(tech_hub_models) : Contains(tech_hub_models[i], Lower(model))
    /\ DLe(DInt(3), age_years)
    /\ DLt(age_years, DInt(5))

TechHubPremium(model, age_years) ==
    /\ \E i \in 1..Len(tech_hub_models) : Contains(tech_hub_models[i], Lower(model))
    /\ DLe(DInt(3), age_years)
    /\ DLe(age_years, DInt(5))

\* [multiplier, recommendations appended]
calculate_hyderabad_factor(make, model, fuel_type, age_years) ==
    LET m1 == IF DieselPremium(fuel_type, age_years)
              THEN DMul(HYDERABAD_FACTORS.default, HYDERABAD_FACTORS.diesel_premium)
              ELSE HYDERABAD_FACTORS.default
        m2 == IF TechHubPremium(model, age_years)
              THEN DMul(m1, HYDERABAD_FACTORS.tech_hub_premium)
              ELSE m1
    IN  [multiplier |-> m2,
         recommendations |->
             (IF DieselPremium(fuel_type, age_years) THEN <<Msg("diesel_premium", <<>>)>> ELSE <<>>)
             \o (IF TechHubPremium(model, age_years) THEN <<Msg("tech_hub_premium", <<>>)>> ELSE <<>>)]

(***************************************************************************)
(* market_sentiment_analyzer.py.  A reason string is the entry Msg/MsgT    *)
(* of its f-string.                                                        *)
(***************************************************************************)
\* one fuel's rows of FUEL_MARKET_TRENDS, for the years 2015..2025
TrendRows(pcts, trends) ==
    [y \in 2015..2025 |-> [multiplier |-> Pct(pcts[y - 2014]), trend |-> trends[y - 2014]]]

FUEL_MARKET_TRENDS ==
    "petrol" :> TrendRows(<<100, 100, 100, 100, 100, 103, 104, 105, 105, 103, 103>>,
        <<"Stable", "Stable", "Stable", "Stable", "Stable", "Rising Demand", "Rising Demand", "Rising Demand", "Rising Demand", "Stable", "Stable">>)
    @@ "diesel" :> TrendRows(<<105, 105, 105, 104, 102, 98, 95, 93, 92, 91, 90>>,
        <<"Stable", "Stable", "Stable", "Stable", "Declining Demand", "Declining Demand", "Declining Demand", "Declining Demand", "Declining Demand", "Declining Demand", "Declining Demand">>)
    @@ "cng" :> TrendRows(<<98, 98, 100, 102, 103, 104, 106, 108, 108, 107, 107>>,
        <<"Stable", "Stable", "Rising Demand", "Rising Demand", "Rising Demand", "Rising Demand", "Rising Demand", "Rising Demand", "Rising Demand", "Stable", "Stable">>)
    @@ "electric" :> TrendRows(<<85, 87, 89, 92, 95, 100, 105, 110, 112, 115, 118>>,
        <<"Stable", "Stable", "Stable", "Rising Demand", "Rising Demand", "Rising Demand", "Rising Demand", "Rising Demand", "Rising Demand", "Rising Demand", "Rising Demand">>)

SEGMENT_TRENDS ==
    "hatchback" :> [base_multiplier |-> Pct(100), trend |-> "Stable demand, entry-level buyers"]
    @@ "compact_suv" :> [base_multiplier |-> Pct(108), trend |-> "Very high demand post-2020"]
    @@ "suv" :> [base_multiplier |-> Pct(105), trend |-> "Growing demand"]
    @@ "sedan" :> [base_multiplier |-> Pct(95), trend |-> "Declining popularity, SUV preference"]
    @@ "mpv" :> [base_multiplier |-> Pct(98), trend |-> "Niche segment"]
    @@ "luxury" :> [base_multiplier |-> Pct(85), trend |-> "Steep depreciation"]

\* the items of MODEL_SEGMENT_MAP in insertion order
MODEL_SEGMENT_MAP ==
    <<<<"alto", "hatchback">>, <<"kwid", "hatchback">>, <<"wagon r", "hatchback">>,
       <<"swift", "hatchback">>, <<"baleno", "hatchback">>, <<"i20", "hatchback">>,
       <<"polo", "hatchback">>, <<"jazz", "hatchback">>, <<"altroz", "hatchback">>,
       <<"glanza", "hatchback">>, <<"venue", "compact_suv">>, <<"sonet", "compact_suv">>,
       <<"nexon", "compact_suv">>, <<"brezza", "compact_suv">>, <<"ecosport", "compact_suv">>,
       <<"xuv300", "compact_suv">>, <<"magnite", "compact_suv">>, <<"kiger", "compact_suv">>,
       <<"punch", "compact_suv">>, <<"creta", "suv">>, <<"seltos", "suv">>,
       <<"harrier", "suv">>, <<"hector", "suv">>, <<"xuv700", "suv">>,
       <<"compass", "suv">>, <<"alcazar", "suv">>, <<"safari", "suv">>,
       <<"scorpio", "suv">>, <<"dzire", "sedan">>, <<"amaze", "sedan">>,
       <<"aura", "sedan">>, <<"city", "sedan">>, <<"verna", "sedan">>,
       <<"ciaz", "sedan">>, <<"slavia", "sedan">>, <<"virtus", "sedan">>,
       <<"ertiga", "mpv">>, <<"marazzo", "mpv">>, <<"carens", "mpv">>,
       <<"innova", "mpv">>, <<"carnival", "mpv">>>>

\* the impact of ECONOMIC_EVENTS, in percent
ECONOMIC_EVENTS ==
    (2020 :> -10) @@ (2021 :> 5) @@ (2022 :> 8) @@ (2023 :> 0) @@ (2024 :> 0) @@ (2025 :> 0)

BRAND_RESALE_INDEX ==
    "maruti suzuki" :> Pct(108) @@ "maruti" :> Pct(108) @@ "honda" :> Pct(105)
    @@ "toyota" :> Pct(106) @@ "hyundai" :> Pct(104) @@ "kia" :> Pct(102)
    @@ "tata" :> Pct(100) @@ "mahindra" :> Pct(101) @@ "volkswagen" :> Pct(95)
    @@ "skoda" :> Pct(94) @@ "renault" :> Pct(92) @@ "nissan" :> Pct(93)
    @@ "ford" :> Pct(80) @@ "chevrolet" :> Pct(75) @@ "fiat" :> Pct(70)

\* [multiplier, reason]
get_fuel_type_sentiment(fuel_type, current_year) ==
    LET fuel_lower == Lower(fuel_type)
    IN  IF fuel_lower \notin DOMAIN FUEL_MARKET_TRENDS
        THEN [multiplier |-> Pct(100), reason |-> Msg("fuel_unknown", <<>>)]
        ELSE LET trend_data == Get(FUEL_MARKET_TRENDS[fuel_lower], current_year,
                                   [multiplier |-> Pct(100), trend |-> "Stable"])
             IN  [multiplier |-> trend_data.multiplier,
                  reason |-> MsgT("fuel_market", <<Capitalize(fuel_type), trend_data.trend>>, <<>>)]

get_segment_sentiment(model) ==
    LET model_lower == Underscored(Lower(model))
        InModel(model_key) == Contains(model_key, model_lower)
        segment == FirstHit(MODEL_SEGMENT_MAP, InModel, "")
    IN  IF segment = ""
        THEN [multiplier |-> Pct(100), reason |-> Msg("segment_unknown", <<>>)]
        ELSE [multiplier |-> SEGMENT_TRENDS[segment].base_multiplier,
              reason |-> MsgT("segment", <<segment, SEGMENT_TRENDS[segment].trend>>, <<>>)]

get_economic_factor(valuation_year) ==
    IF valuation_year \in DOMAIN ECONOMIC_EVENTS
    THEN [multiplier |-> DAdd(DOne, Pct(ECONOMIC_EVENTS[valuation_year])),
          reason |-> Msg("economic_event", <<valuation_year>>)]
    ELSE [multiplier |-> Pct(100), reason |-> Msg("economic_none", <<>>)]

\* `{(total_multiplier - 1.0) * 100:+.1f}`, in tenths of a percent
SignedTenths(total_multiplier) == Rupees(DMul(DSub(total_multiplier, DOne), DInt(1000)))

\* the result of calculate_market_sentiment_multiplier from its parts
SentimentBreakdown(fuel, segment, econ, total_multiplier) ==
    [total_multiplier |-> total_multiplier,
     breakdown |-> [fuel_type |-> fuel, segment |-> segment, economic |-> econ,
                    total_multiplier |-> total_multiplier,
                    notes |-> Msg("sentiment_notes", <<SignedTenths(total_multiplier)>>)]]

CombinedSentiment(fuel, segment, econ) ==
    SentimentBreakdown(fuel, segment, econ,
                       DMul(DMul(fuel.multiplier, segment.multiplier), econ.multiplier))

\* [total_multiplier, breakdown]; valuation_year is datetime.now().year
calculate_market_sentiment_multiplier(make, model, fuel_type, purchase_year, valuation_year) ==
    CombinedSentiment(get_fuel_type_sentiment(fuel_type, valuation_year),
                      get_segment_sentiment(model),
                      get_economic_factor(purchase_year))

\* `{(multiplier-1)*100:.0f}`
BrandPercent(multiplier) == Rupees(DMul(DSub(multiplier, DOne), DInt(100)))

\* [multiplier, reason]
get_brand_resale_multiplier(make) ==
    LET make_lower == Lower(make)
    IN  IF make_lower \in DOMAIN BRAND_RESALE_INDEX
        THEN LET multiplier == BRAND_RESALE_INDEX[make_lower]
             IN  [multiplier |-> multiplier,
                  reason |-> IF DLt(DOne, multiplier)
                             THEN MsgT("brand_excellent", <<make>>, <<BrandPercent(multiplier)>>)
                             ELSE IF DLt(multiplier, DOne)
                             THEN MsgT("brand_lower", <<make>>, <<BrandPercent(multiplier)>>)
                             ELSE MsgT("brand_standard_listed", <<make>>, <<>>)]
        ELSE [multiplier |-> Pct(100), reason |-> MsgT("brand_standard", <<make>>, <<>>)]

\* a recommendation that quotes a reason: f"   Fuel type: {reason}"
Quote(tag, reason) == MsgT(tag, <<reason.tag>> \o reason.text, reason.args)

(***************************************************************************)
(* historical_price_database.py.                                           *)
(***************************************************************************)
\* HISTORICAL_PRICES[model_key][year]: the items variant -> price in
\* insertion order
HISTORICAL_PRICES ==
    "maruti_swift" :>
        ( (2015 :> <<<<"lxi", 445000>>, <<"vxi", 525000>>, <<"zxi", 595000>>>>)
       @@          (2016 :> <<<<"lxi", 455000>>, <<"vxi", 535000>>, <<"zxi", 605000>>>>)
       @@          (2017 :> <<<<"lxi", 465000>>, <<"vxi", 545000>>, <<"zxi", 615000>>>>)
       @@          (2018 :> <<<<"lxi", 495000>>, <<"vxi", 575000>>, <<"zxi", 645000>>>>)
       @@          (2019 :> <<<<"lxi", 510000>>, <<"vxi", 590000>>, <<"zxi", 660000>>>>)
       @@          (2020 :> <<<<"lxi", 525000>>, <<"vxi", 605000>>, <<"zxi", 675000>>>>)
       @@          (2021 :> <<<<"lxi", 545000>>, <<"vxi", 625000>>, <<"zxi", 695000>>>>)
       @@          (2022 :> <<<<"lxi", 570000>>, <<"vxi", 650000>>, <<"zxi", 720000>>>>)
       @@          (2023 :> <<<<"lxi", 595000>>, <<"vxi", 675000>>, <<"zxi", 745000>>>>)
       @@          (2024 :> <<<<"lxi", 620000>>, <<"vxi", 700000>>, <<"zxi", 770000>>>>)
       @@          (2025 :> <<<<"lxi", 640000>>, <<"vxi", 720000>>, <<"zxi", 790000>>>>) )
    @@ "hyundai_i20" :>
        ( (2015 :> <<<<"magna", 550000>>, <<"sportz", 650000>>, <<"asta", 750000>>>>)
       @@          (2016 :> <<<<"magna", 565000>>, <<"sportz", 665000>>, <<"asta", 765000>>>>)
       @@          (2017 :> <<<<"magna", 580000>>, <<"sportz", 680000>>, <<"asta", 780000>>>>)
       @@          (2018 :> <<<<"magna", 595000>>, <<"sportz", 695000>>, <<"asta", 795000>>>>)
       @@          (2019 :> <<<<"magna", 610000>>, <<"sportz", 710000>>, <<"asta", 810000>>>>)
       @@          (2020 :> <<<<"magna", 700000>>, <<"sportz", 800000>>, <<"asta", 900000>>>>)
       @@          (2021 :> <<<<"magna", 720000>>, <<"sportz", 820000>>, <<"asta", 920000>>>>)
       @@          (2022 :> <<<<"magna", 745000>>, <<"sportz", 845000>>, <<"asta", 945000>>>>)
       @@          (2023 :> <<<<"magna", 770000>>, <<"sportz", 870000>>, <<"asta", 970000>>>>)
       @@          (2024 :> <<<<"magna", 795000>>, <<"sportz", 895000>>, <<"asta", 995000>>>>)
       @@          (2025 :> <<<<"magna", 820000>>, <<"sportz", 920000>>, <<"asta", 1020000>>>>) )
    @@ "hyundai_creta" :>
        ( (2015 :> <<<<"e", 925000>>, <<"s", 1125000>>, <<"sx", 1325000>>>>)
       @@          (2016 :> <<<<"e", 950000>>, <<"s", 1150000>>, <<"sx", 1350000>>>>)
       @@          (2017 :> <<<<"e", 975000>>, <<"s", 1175000>>, <<"sx", 1375000>>>>)
       @@          (2018 :> <<<<"e", 1000000>>, <<"s", 1200000>>, <<"sx", 1400000>>>>)
       @@          (2019 :> <<<<"e", 1025000>>, <<"s", 1225000>>, <<"sx", 1425000>>>>)
       @@          (2020 :> <<<<"e", 1050000>>, <<"s", 1250000>>, <<"sx", 1450000>>, <<"sx(o)", 1550000>>>>)
       @@          (2021 :> <<<<"e", 1080000>>, <<"s", 1280000>>, <<"sx", 1480000>>, <<"sx(o)", 1580000>>>>)
       @@          (2022 :> <<<<"e", 1115000>>, <<"s", 1315000>>, <<"sx", 1515000>>, <<"sx(o)", 1615000>>>>)
       @@          (2023 :> <<<<"e", 1150000>>, <<"s", 1350000>>, <<"sx", 1550000>>, <<"sx(o)", 1650000>>>>)
       @@          (2024 :> <<<<"e", 1185000>>, <<"s", 1385000>>, <<"sx", 1585000>>, <<"sx(o)", 1685000>>>>)
       @@          (2025 :> <<<<"e", 1220000>>, <<"s", 1420000>>, <<"sx", 1620000>>, <<"sx(o)", 1720000>>>>) )
    @@ "maruti_baleno" :>
        ( (2015 :> <<<<"sigma", 505000>>, <<"delta", 605000>>, <<"zeta", 685000>>, <<"alpha", 755000>>>>)
       @@          (2016 :> <<<<"sigma", 520000>>, <<"delta", 620000>>, <<"zeta", 700000>>, <<"alpha", 770000>>>>)
       @@          (2017 :> <<<<"sigma", 535000>>, <<"delta", 635000>>, <<"zeta", 715000>>, <<"alpha", 785000>>>>)
       @@          (2018 :> <<<<"sigma", 550000>>, <<"delta", 650000>>, <<"zeta", 730000>>, <<"alpha", 800000>>>>)
       @@          (2019 :> <<<<"sigma", 570000>>, <<"delta", 670000>>, <<"zeta", 750000>>, <<"alpha", 820000>>>>)
       @@          (2020 :> <<<<"sigma", 590000>>, <<"delta", 690000>>, <<"zeta", 770000>>, <<"alpha", 840000>>>>)
       @@          (2021 :> <<<<"sigma", 610000>>, <<"delta", 710000>>, <<"zeta", 790000>>, <<"alpha", 860000>>>>)
       @@          (2022 :> <<<<"sigma", 635000>>, <<"delta", 735000>>, <<"zeta", 815000>>, <<"alpha", 885000>>>>)
       @@          (2023 :> <<<<"sigma", 660000>>, <<"delta", 760000>>, <<"zeta", 840000>>, <<"alpha", 910000>>>>)
       @@          (2024 :> <<<<"sigma", 685000>>, <<"delta", 785000>>, <<"zeta", 865000>>, <<"alpha", 935000>>>>)
       @@          (2025 :> <<<<"sigma", 710000>>, <<"delta", 810000>>, <<"zeta", 890000>>, <<"alpha", 960000>>>>) )
    @@ "honda_city" :>
        ( (2015 :> <<<<"s", 845000>>, <<"sv", 945000>>, <<"v", 1045000>>, <<"vx", 1145000>>>>)
       @@          (2016 :> <<<<"s", 865000>>, <<"sv", 965000>>, <<"v", 1065000>>, <<"vx", 1165000>>>>)
       @@          (2017 :> <<<<"s", 885000>>, <<"sv", 985000>>, <<"v", 1085000>>, <<"vx", 1185000>>>>)
       @@          (2018 :> <<<<"s", 905000>>, <<"sv", 1005000>>, <<"v", 1105000>>, <<"vx", 1205000>>>>)
       @@          (2019 :> <<<<"s", 925000>>, <<"sv", 1025000>>, <<"v", 1125000>>, <<"vx", 1225000>>>>)
       @@          (2020 :> <<<<"s", 945000>>, <<"sv", 1045000>>, <<"v", 1145000>>, <<"vx", 1245000>>, <<"zx", 1345000>>>>)
       @@          (2021 :> <<<<"s", 1000000>>, <<"sv", 1100000>>, <<"v", 1200000>>, <<"vx", 1300000>>, <<"zx", 1400000>>>>)
       @@          (2022 :> <<<<"s", 1030000>>, <<"sv", 1130000>>, <<"v", 1230000>>, <<"vx", 1330000>>, <<"zx", 1430000>>>>)
       @@          (2023 :> <<<<"s", 1065000>>, <<"sv", 1165000>>, <<"v", 1265000>>, <<"vx", 1365000>>, <<"zx", 1465000>>>>)
       @@          (2024 :> <<<<"s", 1100000>>, <<"sv", 1200000>>, <<"v", 1300000>>, <<"vx", 1400000>>, <<"zx", 1500000>>>>)
       @@          (2025 :> <<<<"s", 1135000>>, <<"sv", 1235000>>, <<"v", 1335000>>, <<"vx", 1435000>>, <<"zx", 1535000>>>>) )

\* the rate of TELANGANA_TAX_RATES
TELANGANA_TAX_RATES ==
    (2015 :> Bp(1200)) @@ (2016 :> Bp(1200)) @@ (2017 :> Bp(1200)) @@ (2018 :> Bp(1400))
    @@ (2019 :> Bp(1400)) @@ (2020 :> Bp(1400)) @@ (2021 :> Bp(1250)) @@ (2022 :> Bp(1250))
    @@ (2023 :> Bp(1250)) @@ (2024 :> Bp(1250)) @@ (2025 :> Bp(1250))

REGISTRATION_CHARGES ==
    (2015 :> [registration |-> 600, smart_card |-> 300, cess |-> 200, other |-> 500])
    @@ (2016 :> [registration |-> 600, smart_card |-> 300, cess |-> 200, other |-> 500])
    @@ (2017 :> [registration |-> 800, smart_card |-> 400, cess |-> 300, other |-> 600])
    @@ (2018 :> [registration |-> 1000, smart_card |-> 500, cess |-> 300, other |-> 700])
    @@ (2019 :> [registration |-> 1000, smart_card |-> 500, cess |-> 300, other |-> 700])
    @@ (2020 :> [registration |-> 1200, smart_card |-> 600, cess |-> 400, other |-> 800])
    @@ (2021 :> [registration |-> 1200, smart_card |-> 600, cess |-> 400, other |-> 800])
    @@ (2022 :> [registration |-> 1500, smart_card |-> 700, cess |-> 500, other |-> 1000])
    @@ (2023 :> [registration |-> 1500, smart_card |-> 700, cess |-> 500, other |-> 1000])
    @@ (2024 :> [registration |-> 1800, smart_card |-> 800, cess |-> 600, other |-> 1200])
    @@ (2025 :> [registration |-> 2000, smart_card |-> 900, cess |-> 700, other |-> 1400])

estimate_insurance_cost(ex_showroom_price, year) ==
    LET rate == IF DLt(ex_showroom_price, DInt(500000)) THEN Bp(400)
                ELSE IF DLt(ex_showroom_price, DInt(1000000)) THEN Bp(350)
                ELSE Bp(300)
        year_factor == DAdd(DOne, DMul(DInt(year - 2015), Pct(2)))
    IN  DMul(DMul(ex_showroom_price, rate), year_factor)

\* a flat 12% for a year that the schedule does not hold (not the code)
RoadTaxRateFlat(year, state) ==
    IF Lower(state) = "telangana"
    THEN Get(TELANGANA_TAX_RATES, year, Pct(12))
    ELSE Pct(12)

\* the road tax: the schedule is consulted for Telangana only
RoadTaxRate(year, state) ==
    IF Lower(state) = "telangana"
    THEN Get(TELANGANA_TAX_RATES, year, TELANGANA_TAX_RATES[2025])
    ELSE Pct(12)

\* the result of calculate_on_road_price from its parts
OnRoadResult(ex_showroom, rate, road_tax, reg_charges, insurance, on_road) ==
    [on_road_price |-> on_road,
     breakdown |-> [ex_showroom |-> ex_showroom,
                    road_tax |-> road_tax,
                    road_tax_rate |-> rate,
                    registration |-> reg_charges.registration,
                    smart_card |-> reg_charges.smart_card,
                    cess |-> reg_charges.cess,
                    other_charges |-> reg_charges.other,
                    insurance |-> insurance,
                    total_on_road |-> on_road]]

\* a total that leaves the insurance out (not the code)
OnRoadTotalUninsured(ex_showroom, rate, road_tax, reg_charges, insurance) ==
    OnRoadResult(ex_showroom, rate, road_tax, reg_charges, insurance,
        DAdd(DAdd(DAdd(DAdd(DAdd(ex_showroom, road_tax),
            DInt(reg_charges.registration)), DInt(reg_charges.smart_card)),
            DInt(reg_charges.cess)), DInt(reg_charges.other)))

OnRoadTotal(ex_showroom, rate, road_tax, reg_charges, insurance) ==
    OnRoadResult(ex_showroom, rate, road_tax, reg_charges, insurance,
        DAdd(DAdd(DAdd(DAdd(DAdd(DAdd(ex_showroom, road_tax),
            DInt(reg_charges.registration)), DInt(reg_charges.smart_card)),
            DInt(reg_charges.cess)), DInt(reg_charges.other)), insurance))

\* [on_road_price, breakdown]; breakdown.road_tax_rate is <<rate * 100>>
\* for Telangana and absent (<<>>) for another state
calculate_on_road_price(ex_showroom, year, state) ==
    OnRoadTotal(ex_showroom,
                IF Lower(state) = "telangana"
                THEN <<DMul(RoadTaxRate(year, state), DInt(100))>> ELSE <<>>,
                DMul(ex_showroom, RoadTaxRate(year, state)),
                Get(REGISTRATION_CHARGES, year, REGISTRATION_CHARGES[2025]),
                estimate_insurance_cost(ex_showroom, year))

\* str.strip() of blanks
RECURSIVE Strip(_)
Strip(str) ==
    IF str = "" THEN ""
    ELSE IF SubSeq(str, 1, 1) = " " THEN Strip(SubSeq(str, 2, Len(str)))
    ELSE IF SubSeq(str, Len(str), Len(str)) = " " THEN Strip(SubSeq(str, 1, Len(str) - 1))
    ELSE str

\* str.replace(ch, '')
RECURSIVE Without(_, _)
Without(str, ch) ==
    IF str = "" THEN ""
    ELSE (IF SubSeq(str, 1, 1) = ch THEN "" ELSE SubSeq(str, 1, 1))
         \o Without(SubSeq(str, 2, Len(str)), ch)

\* the price, or 0 for None
get_historical_ex_showroom_price(make, model, variant, year) ==
    LET model_key   == Underscored(Lower(make)) \o "_" \o Underscored(Lower(model))
        variant_key == Lower(Without(Without(Strip(Lower(variant)), "i"), "I"))
        InName(var_name) == Contains(variant_key, Lower(var_name))
    IN  IF model_key \in DOMAIN HISTORICAL_PRICES /\ year \in DOMAIN HISTORICAL_PRICES[model_key]
        THEN FirstHit(HISTORICAL_PRICES[model_key][year], InName, 0)
        ELSE 0

\* the on-road price of an ex-showroom price found (0: not found)
HistoricalOnRoad(ex_showroom, year, state) ==
    IF ex_showroom = 0 THEN <<>>
    ELSE <<calculate_on_road_price(DInt(ex_showroom), year, state)>>

\* <<result>>, or <<>> for None
get_historical_on_road_price(make, model, variant, year, month, state) ==
    HistoricalOnRoad(get_historical_ex_showroom_price(make, model, variant, year),
                     year, state)

\* b ** n for an integer n of either sign
PowInt(b, n) == IF n >= 0 THEN DPow(b, n) ELSE DDiv(DOne, DPow(b, -n))

estimate_historical_price(current_ex_showroom, current_year, target_year) ==
    LET years_diff       == current_year - target_year
        inflation_rate   == Pct(6)
        deflation_factor == PowInt(DAdd(DOne, inflation_rate), years_diff)
    IN  DDiv(current_ex_showroom, deflation_factor)

(***************************************************************************)
(* The environment of a call: env.today is date.today() (datetime.now()    *)
(* is the same clock), env.fetch is what price_fetcher.get_current_price   *)
(* does when called ([kind |-> "raise"], [kind |-> "none"] for None or a   *)
(* dict without price, [kind |-> "price", price |-> p]), and env.modules   *)
(* holds the flags PRICE_FETCHER_AVAILABLE, HISTORICAL_PRICES_AVAILABLE    *)
(* and MARKET_SENTIMENT_AVAILABLE set by the imports.                      *)
(***************************************************************************)
IsLeap(y) == (y % 4 = 0 /\ y % 100 # 0) \/ y % 400 = 0

DaysBeforeYear(y) == 365 * (y - 1) + ((y - 1) \div 4) - ((y - 1) \div 100) + ((y - 1) \div 400)

DaysInMonth(y, m) ==
    IF m = 2 THEN (IF IsLeap(y) THEN 29 ELSE 28)
    ELSE IF m \in {4, 6, 9, 11} THEN 30 ELSE 31

RECURSIVE DaysBeforeMonth(_, _)
DaysBeforeMonth(y, m) == IF m = 1 THEN 0 ELSE DaysBeforeMonth(y, m - 1) + DaysInMonth(y, m - 1)

\* date.toordinal()
Ordinal(d) == DaysBeforeYear(d.year) + DaysBeforeMonth(d.year, d.month) + d.day

Date(y, m, d) == [year |-> y, month |-> m, day |-> d]

calculate_vehicle_age(registration_date, today) ==
    LET age_days == Ordinal(today) - Ordinal(registration_date)
    IN  DDiv(DInt(age_days), DN(3652500, 1))

(***************************************************************************)
(* The base price resolvers of OBVHyderabadEngine.                         *)
(***************************************************************************)
\* the items of `segments` of get_current_on_road_price in insertion order
current_segments ==
    <<<<"alto", 450000>>, <<"kwid", 450000>>, <<"s-presso", 450000>>, <<"wagon r", 550000>>,
      <<"wagonr", 550000>>, <<"santro", 500000>>, <<"grand i10", 600000>>, <<"ignis", 600000>>,
      <<"swift", 650000>>, <<"dzire", 700000>>, <<"baleno", 750000>>, <<"glanza", 700000>>,
      <<"i20", 750000>>, <<"altroz", 700000>>, <<"polo", 750000>>, <<"jazz", 800000>>,
      <<"fronx", 800000>>, <<"venue", 1200000>>, <<"sonet", 900000>>, <<"nexon", 900000>>,
      <<"punch", 700000>>, <<"brezza", 1100000>>, <<"vitara brezza", 1100000>>, <<"ecosport", 1100000>>,
      <<"magnite", 700000>>, <<"kiger", 700000>>, <<"city", 1200000>>, <<"verna", 1200000>>,
      <<"ciaz", 1000000>>, <<"slavia", 1200000>>, <<"virtus", 1200000>>, <<"creta", 1500000>>,
      <<"seltos", 1600000>>, <<"harrier", 2000000>>, <<"hector", 1600000>>, <<"alcazar", 1800000>>,
      <<"safari", 1800000>>, <<"xuv", 1800000>>, <<"xuv700", 2200000>>, <<"scorpio", 1600000>>,
      <<"compass", 2500000>>, <<"thar", 1500000>>, <<"ertiga", 1000000>>, <<"carens", 1200000>>,
      <<"marazzo", 1300000>>, <<"innova", 2500000>>, <<"crysta", 2500000>>, <<"carnival", 3500000>>,
      <<"fortuner", 3500000>>, <<"endeavour", 3500000>>, <<"tucson", 3000000>>, <<"kona", 2500000>>,
      <<"elantra", 2000000>>, <<"octavia", 2800000>>, <<"superb", 3500000>>, <<"kodiaq", 4000000>>,
      <<"hyryder", 1200000>>, <<"urban cruiser", 1100000>>, <<"nexon ev", 1500000>>, <<"tiago ev", 900000>>,
      <<"eeco", 500000>>, <<"celerio", 550000>>, <<"aura", 700000>>, <<"beetle", 2500000>>>>

\* historical_segments of get_original_on_road_price
historical_segments ==
    "beetle" :> (2016 :> 2350000 @@ 2017 :> 2450000 @@ 2018 :> 2550000 @@ 2019 :> 2600000)
    @@ "figo" :> (2015 :> 450000 @@ 2016 :> 470000 @@ 2017 :> 490000 @@ 2018 :> 510000 @@ 2019 :> 530000)
    @@ "ecosport" :> (2015 :> 700000 @@ 2016 :> 750000 @@ 2017 :> 800000 @@ 2018 :> 850000 @@ 2019 :> 900000)

\* the items of `segments` of get_original_on_road_price in insertion order
original_segments ==
    <<<<"alto", 450000>>, <<"kwid", 450000>>, <<"wagon r", 550000>>, <<"wagonr", 550000>>,
      <<"santro", 500000>>, <<"swift", 650000>>, <<"baleno", 750000>>, <<"i20", 750000>>,
      <<"celerio", 550000>>, <<"aura", 700000>>, <<"beetle", 2500000>>>>

DISCONTINUED_MODELS ==
    {"avventura", "beat", "beetle", "chevrolet", "cruze", "datsun",
     "ecosport", "figo", "ford ecosport", "ford figo", "go", "go+",
     "linea", "micra", "palio", "punto", "redi-go", "safari storme",
     "sail", "storme", "sunny", "terrano", "volkswagen beetle", "vw beetle"}

is_discontinued(make, model) ==
    LET make_model  == Lower(make \o " " \o model)
        model_lower == Lower(model)
    IN  \E disc \in DISCONTINUED_MODELS :
            Contains(disc, make_model) \/ Contains(disc, model_lower)

\* the ex-showroom price the fetcher yields inside the try block when it is
\* within the accepted range, 0 otherwise (not fetched, raised, None, out of
\* range)
FetchedPrice(env) ==
    IF /\ env.modules.price_fetcher
       /\ env.fetch.kind = "price"
       /\ 300000 <= env.fetch.price
       /\ env.fetch.price <= 15000000
    THEN env.fetch.price
    ELSE 0

\* the recommendation listing the components of an on-road price
Components(breakdown) ==
    Msg("components", <<Rupees(breakdown.ex_showroom), Rupees(breakdown.road_tax),
                        Rupees(breakdown.insurance),
                        breakdown.registration + breakdown.smart_card
                            + breakdown.cess + breakdown.other_charges>>)

\* segments lookup of get_current_on_road_price: exact key, else the first
\* key contained in the model name or containing it, else 800000
CurrentSegmentPrice(model) ==
    LET model_lower == Lower(model)
        Exact(key)   == key = model_lower
        Partial(key) == Contains(key, model_lower) \/ Contains(model_lower, key)
    IN  IF \E i \in 1..Len(current_segments) : Exact(current_segments[i][1])
        THEN FirstHit(current_segments, Exact, 800000)
        ELSE FirstHit(current_segments, Partial, 800000)

\* the outcome of a resolver whose ex-showroom estimate ex came with the
\* entries ws and rs, on_road being calculate_on_road_price of it
WithOnRoad(ws, rs, tag, year, on_road) ==
    [price |-> on_road.on_road_price,
     warnings |-> ws,
     recommendations |-> rs \o <<Msg(tag, <<year, Rupees(on_road.on_road_price)>>),
                                 Components(on_road.breakdown)>>]

\* get_current_on_road_price once the ex-showroom price is settled: fetched
\* is the fetcher's price or 0, current_ex_showroom the price used
CurrentFrom(current_year, fetched, current_ex_showroom, state, env) ==
    IF env.modules.historical_prices
    THEN WithOnRoad(<<>>,
                    IF fetched # 0
                    THEN <<Msg("current_ex_showroom", <<current_year, fetched>>)>>
                    ELSE <<Msg("segment_estimate", <<current_year, current_ex_showroom>>)>>,
                    "current_on_road", current_year,
                    calculate_on_road_price(DInt(current_ex_showroom), current_year, state))
    ELSE [price |-> DMul(DInt(current_ex_showroom), Pct(118)),
          warnings |-> <<Msg("on_road_unavailable_buffer", <<>>)>>,
          recommendations |->
              IF fetched # 0
              THEN <<Msg("current_ex_showroom", <<current_year, fetched>>)>>
              ELSE <<Msg("segment_estimate", <<current_year, current_ex_showroom>>)>>]

CurrentFetched(current_year, fetched, model, state, env) ==
    CurrentFrom(current_year, fetched,
                IF fetched # 0 THEN fetched ELSE CurrentSegmentPrice(model),
                state, env)

\* [price, warnings, recommendations]: the return value and the entries
\* appended to self.warnings and self.recommendations
get_current_on_road_price(make, model, variant, fuel_type, state, env) ==
    CurrentFetched(env.today.year, FetchedPrice(env), model, state, env)

\* an ex-showroom estimate with the entry recorded for it
Estimate(ex, ws, rs) == [ex_showroom |-> ex, warnings |-> ws, recommendations |-> rs]

EstimatedFromCurrent(year, ex) ==
    Estimate(ex, <<>>, <<Msg("estimated_from_current", <<year, Rupees(ex)>>)>>)

EstimatedFromSegment(year, ex) ==
    Estimate(ex, <<Msg("estimated_not_in_database", <<year, Rupees(ex)>>)>>, <<>>)

\* priority 3 of get_original_on_road_price
SegmentEstimate(model_lower, year, current_year) ==
    IF model_lower \in DOMAIN historical_segments
       /\ year \in DOMAIN historical_segments[model_lower]
    THEN Estimate(DInt(historical_segments[model_lower][year]), <<>>,
                  <<Msg("historical_segment",
                        <<year, historical_segments[model_lower][year]>>)>>)
    ELSE LET InModel(key) == Contains(key, model_lower)
         IN  EstimatedFromSegment(year,
                 IF current_year - year > 0
                 THEN DDiv(DInt(FirstHit(original_segments, InModel, 800000)),
                           DPow(Pct(106), current_year - year))
                 ELSE DInt(FirstHit(original_segments, InModel, 800000)))

\* priorities 2 and 3 of get_original_on_road_price:
\* [ex_showroom, warnings, recommendations]
OriginalExShowroom(model, year, env) ==
    IF FetchedPrice(env) # 0 /\ env.modules.historical_prices
    THEN EstimatedFromCurrent(year,
             estimate_historical_price(DInt(FetchedPrice(env)), env.today.year, year))
    ELSE SegmentEstimate(Lower(model), year, env.today.year)

\* get_original_on_road_price from the estimate est of priorities 2 and 3
OriginalFrom(est, year, state, env) ==
    IF env.modules.historical_prices /\ est.ex_showroom # DZero
    THEN WithOnRoad(est.warnings, est.recommendations, "calculated_on_road", year,
                    calculate_on_road_price(est.ex_showroom, year, state))
    ELSE [price |-> IF est.ex_showroom # DZero THEN est.ex_showroom ELSE DInt(800000),
          warnings |-> est.warnings \o <<Msg("on_road_unavailable", <<>>)>>,
          recommendations |-> est.recommendations]

\* get_original_on_road_price when the historical database has the price
OriginalFromDatabase(found, year, state) ==
    [price |-> found.on_road_price,
     warnings |-> <<>>,
     recommendations |->
         <<Msg("historical_database", <<year, Rupees(found.on_road_price)>>),
           Msg("historical_database_parts",
               <<Rupees(found.breakdown.ex_showroom), Rupees(found.breakdown.road_tax),
                 Rupees(DMul(found.breakdown.road_tax_rate[1], DInt(100))),
                 Rupees(found.breakdown.insurance)>>)>>]

OriginalLookedUp(historical_result, model, year, state, env) ==
    IF historical_result # <<>>
    THEN OriginalFromDatabase(historical_result[1], year, state)
    ELSE OriginalFrom(OriginalExShowroom(model, year, env), year, state, env)

\* [price, warnings, recommendations]
get_original_on_road_price(make, model, variant, year, month, fuel_type, state, env) ==
    OriginalLookedUp(IF env.modules.historical_prices
                     THEN get_historical_on_road_price(make, model, variant, year, month,
                                                       state)
                     ELSE <<>>,
                     model, year, state, env)

(***************************************************************************)
(* Inputs of the depreciation calls.  Ages are counted in ten-thousandths  *)
(* of a year: every quarter up to MaxAgeYears and the nearest neighbours   *)
(* of the bracket boundaries 1, 3 and 5.                                   *)
(***************************************************************************)
MaxAgeYears == 7

AgeUnits ==
    {2500 * q : q \in 0..(4 * MaxAgeYears)}
        \cup {9999, 10001, 29999, 30001, 49999, 50001}

AgeOf(u) == DN(u, 1)

DepPrices == {700000, 1000000, 452755}

(***************************************************************************)
(* Inputs of the odometer calls: the age in ten-thousandths of a year, the *)
(* fuel type, and readings placed at chosen deviations from the expected   *)
(* reading and around the tamper threshold age * 2000.                     *)
(***************************************************************************)
OdoAgeUnits == {0, 5000, 30000, 62500}

Deviations ==
    {-60000, -30000, -10000, -1, 0, 1, 10000, 12000, 40000, 40001, 65000,
     90000, 90001, 95000, 100000, 100001, 139999, 140000, 150000, 200000}

\* int(age * standard mileage), the age in units
ExpectedKm(u, fuel) == (u * STANDARD_MILEAGE(fuel)) \div 10000

\* the least reading that is not below age * 2000
TamperEdge(u) == (u + 4) \div 5

Readings(u, fuel) ==
    {o \in {ExpectedKm(u, fuel) + d : d \in Deviations}
             \cup {0, TamperEdge(u) - 1, TamperEdge(u), TamperEdge(u) + 1} : o >= 0}

Engines == {1, 2}

VARIABLES
    lists,      \* the heap of Python list objects: lists[id] is the list's content
    engine,     \* engine[e].warnings, engine[e].recommendations: ids of lists
    dep,        \* the depreciation calls
    odo,        \* the odometer calls
    cond,       \* the condition-score calls
    txn,        \* the transaction-price call
    val         \* the valuation calls: val.call[c] is call c, val.direct counts
                \* the direct calls of single calculators

vars == <<lists, engine, dep, odo, cond, txn, val>>

\* OBVHyderabadEngine.__init__ of both engines
InitEngines ==
    /\ lists = <<<<>>, <<>>, <<>>, <<>>>>
    /\ engine = [e \in Engines |-> [warnings |-> 2 * e - 1, recommendations |-> 2 * e]]

Idle == [idle |-> TRUE]

\* self.warnings.append / self.recommendations.append of the entries ws, rs
AppendAll(h, e, ws, rs) ==
    [h EXCEPT ![engine[e].warnings] = @ \o ws,
              ![engine[e].recommendations] = @ \o rs]

\* the appends of a call that returned r
AppendOut(h, e, r) == AppendAll(h, e, r.warnings, r.recommendations)

(***************************************************************************)
(* SpecDep: two calls of calculate_segmented_depreciation on one base      *)
(* price, for the ages dep.ages[1] <= dep.ages[2]; dep.outs holds what the *)
(* calls made so far returned.                                             *)
(***************************************************************************)
InitDep ==
    \E p \in DepPrices, u1 \in AgeUnits, u2 \in AgeUnits :
        /\ u1 <= u2
        /\ dep = [price |-> p, ages |-> <<u1, u2>>, outs |-> <<>>]
        /\ odo = Idle
        /\ cond = Idle
        /\ txn = Idle
        /\ val = Idle
        /\ InitEngines

CallDepreciation ==
    /\ Len(dep.outs) < 2
    /\ dep' = [dep EXCEPT !.outs =
                 Append(@, calculate_segmented_depreciation(
                               AgeOf(dep.ages[Len(dep.outs) + 1]), DInt(dep.price)))]
    /\ UNCHANGED <<lists, engine, odo, cond, txn, val>>

NextDep == CallDepreciation

SpecDep == InitDep /\ [][NextDep]_vars

(***************************************************************************)
(* Claims on the depreciation calculator.                                  *)
(***************************************************************************)
DepBase == DInt(dep.price)

\* C1: for every base price p > 0 the depreciated value is non-increasing in
\* the age (v(a1) >= v(a2) whenever a1 <= a2) and 0 <= v(a) <= p for every
\* age a >= 0, the bracket boundaries 1, 3 and 5 included.
C1_MonotoneBounded ==
    /\ \A k \in 1..Len(dep.outs) :
          /\ DLe(DZero, dep.outs[k].value)
          /\ DLe(dep.outs[k].value, DepBase)
    /\ Len(dep.outs) = 2 => DLe(dep.outs[2].value, dep.outs[1].value)

\* C1 witness: both calls made across the boundary at age 3, the later age
\* strictly cheaper.
C1_Witness ==
    /\ Len(dep.outs) = 2
    /\ dep.ages = <<30000, 30001>>
    /\ DLt(dep.outs[2].value, dep.outs[1].value)

\* C2: depreciation compounds year by year on the remaining value: at age
\* exactly 1 the value is p * 0.83, at age exactly 3 it is p * 0.83 * 0.89 * 0.89,
\* and at an integer age n > 5 it is p * 0.83 * 0.89^2 * 0.91^2 * 0.94^(n-5).
C2_YearByYear ==
    \A k \in 1..Len(dep.outs) :
        LET u == dep.ages[k]
            v == dep.outs[k].value
        IN  /\ u = 10000 => v = DMul(DepBase, Pct(83))
            /\ u = 30000 => v = DMul(DMul(DMul(DepBase, Pct(83)), Pct(89)), Pct(89))
            /\ (u > 50000 /\ u % 10000 = 0) =>
                  v = DMul(DMul(DMul(DMul(DepBase, Pct(83)), DPow(Pct(89), 2)),
                                DPow(Pct(91), 2)),
                           DPow(Pct(94), (u \div 10000) - 5))

\* C2 witness: the calls at the ages 3 and 7 have been made.
C2_Witness ==
    /\ Len(dep.outs) = 2
    /\ dep.ages = <<30000, 70000>>
    /\ dep.price = 700000

(***************************************************************************)
(* SpecOdo: two calls of calculate_odometer_adjustment on engine 1, for    *)
(* one age and fuel type and the readings odo.readings[1] <=               *)
(* odo.readings[2].  odo.outs[k] is what call k returned, with the         *)
(* lengths of the engine's two lists before the call.                      *)
(***************************************************************************)
InitOdo ==
    \E u \in OdoAgeUnits, f \in FuelTypes :
        \E o1 \in Readings(u, f), o2 \in Readings(u, f) :
            /\ o1 <= o2
            /\ odo = [age |-> u, fuel |-> f, readings |-> <<o1, o2>>, outs |-> <<>>]
            /\ dep = Idle
            /\ cond = Idle
            /\ txn = Idle
            /\ val = Idle
            /\ InitEngines

CallOdometer ==
    /\ Len(odo.outs) < 2
    /\ LET r == calculate_odometer_adjustment(
                    AgeOf(odo.age), odo.readings[Len(odo.outs) + 1], odo.fuel)
       IN  /\ lists' = AppendAll(lists, 1, r.warnings, r.recommendations)
           /\ odo' = [odo EXCEPT !.outs =
                        Append(@, [ret |-> r,
                                   w0  |-> Len(lists[engine[1].warnings]),
                                   r0  |-> Len(lists[engine[1].recommendations])])]
    /\ UNCHANGED <<engine, dep, cond, txn, val>>

NextOdo == CallOdometer

SpecOdo == InitOdo /\ [][NextOdo]_vars

(***************************************************************************)
(* Claims on the usage (odometer) adjuster.                                *)
(***************************************************************************)
OdoCalls == 1..Len(odo.outs)
OdoExpected == ExpectedKm(odo.age, odo.fuel)
\* actual - expected of call k
OdoExcess(k) == odo.readings[k] - OdoExpected
\* actual_odometer < age_years * 2000 for call k
OdoTamper(k) == odo.readings[k] * 5 < odo.age
\* what call k appended to self.warnings
OdoWarned(k) ==
    SubSeq(lists[engine[1].warnings], odo.outs[k].w0 + 1,
           IF k < Len(odo.outs) THEN odo.outs[k + 1].w0
           ELSE Len(lists[engine[1].warnings]))
HasTag(q, tag) == \E i \in 1..Len(q) : q[i].tag = tag

\* the tiered penalty of an excess d >= 0, in millionths
PenaltyPpm(d) ==
    2 * MinOf(d, 40000)
      + 4 * MinOf(MaxOf(d - 40000, 0), 50000)
      + (IF d > 90000 THEN 80000 ELSE 0)
      + 6 * MaxOf(d - 100000, 0)

\* C3: for a deviation d = actual - expected >= 0 without tamper trigger the
\* multiplier is max(0.4, 1 - P(d)/100), P being 2% per 10,000 km on the first
\* 40,000 km, 4% per 10,000 km on the next 50,000, a flat 8% once the next
\* 10,000 km is touched and 6% per 10,000 km beyond 100,000 km; d = 0 gives
\* exactly 1.00 and d = 40,000 exactly 0.92.
C3_TieredPenalty ==
    \A k \in OdoCalls :
        LET d == OdoExcess(k)
            f == odo.outs[k].ret.usage_factor
        IN  (d >= 0 /\ ~OdoTamper(k)) =>
               /\ f = DMax(Pct(40), DSub(DOne, DN(100 * PenaltyPpm(d), 2)))
               /\ d = 0 => f = DOne
               /\ d = 40000 => f = Pct(92)

\* C3 witness: a call at d = 40,000 returned 0.92 and one beyond 100,000 km
\* was charged on all four tiers.
C3_Witness ==
    /\ Len(odo.outs) = 2
    /\ OdoExcess(1) = 40000 /\ ~OdoTamper(1)
    /\ odo.outs[1].ret.usage_factor = Pct(92)
    /\ OdoExcess(2) = 100001 /\ ~OdoTamper(2)

\* C4: the 100k-barrier tier is flat: every excess d with 90,000 < d <= 100,000
\* is charged 36% in total (8 + 20 + 8), and the call appends the 100k-barrier
\* warning if and only if d > 90,000.
C4_FlatBarrier ==
    \A k \in OdoCalls :
        LET d == OdoExcess(k)
        IN  /\ (d > 90000 /\ d <= 100000) =>
                  /\ odo.outs[k].ret.penalty_percentage = DInt(36)
                  /\ odo.outs[k].ret.usage_factor = Pct(64)
            /\ HasTag(OdoWarned(k), "barrier_100k") <=> (d > 90000)

\* C4 witness: calls at d = 90,001 and d = 100,000, both warned and charged 36%.
C4_Witness ==
    /\ Len(odo.outs) = 2
    /\ OdoExcess(1) = 90001 /\ OdoExcess(2) = 100000
    /\ odo.outs[1].ret.penalty_percentage = DInt(36)
    /\ HasTag(OdoWarned(1), "barrier_100k") /\ HasTag(OdoWarned(2), "barrier_100k")

(***************************************************************************)
(* SpecCond: calculate_condition_score on engine 1, first on the record    *)
(* cond.vehicle without frame damage, then on the same record with frame   *)
(* damage.  cond.outs[k] is what call k returned, with the multiplier      *)
(* get_condition_multiplier gives for its grade.                           *)
(***************************************************************************)
InitCond ==
    \E b \in BaseInspections, f1 \in Fields, f2 \in Fields :
        \E x1 \in FieldValues[f1], x2 \in FieldValues[f2] :
            /\ cond = [vehicle |-> WithField(WithField(WithField(b, f1, x1), f2, x2),
                                             "frame_damage", FALSE),
                       outs |-> <<>>]
            /\ dep = Idle
            /\ odo = Idle
            /\ txn = Idle
            /\ val = Idle
            /\ InitEngines

CondInput(k) == WithField(cond.vehicle, "frame_damage", k = 2)

CallCondition ==
    /\ Len(cond.outs) < 2
    /\ LET r == calculate_condition_score(CondInput(Len(cond.outs) + 1))
       IN  /\ lists' = AppendAll(lists, 1, r.warnings, <<>>)
           /\ cond' = [cond EXCEPT !.outs =
                         Append(@, [multiplier |-> get_condition_multiplier(r.grade)] @@ r)]
    /\ UNCHANGED <<engine, dep, odo, txn, val>>

NextCond == CallCondition

SpecCond == InitCond /\ [][NextCond]_vars

(***************************************************************************)
(* Claims on the condition scorer.                                         *)
(***************************************************************************)
\* every one of the 16 fields at its best value
AllBest(v) ==
    /\ ~v.frame_damage /\ v.dents_scratches = "None" /\ ~v.repainted
    /\ v.engine_smoke = "None" /\ v.engine_noise = "Normal"
    /\ v.transmission_condition = "Smooth" /\ v.tire_tread >= 75
    /\ v.suspension_condition = "Excellent" /\ v.brake_condition = "Excellent"
    /\ v.interior_condition = "Excellent" /\ v.ac_working /\ ~v.electrical_issues
    /\ v.service_history /\ v.insurance_valid /\ ~v.accident_history
    /\ ~v.rust_present

\* C5: a record with every one of the 16 inspection fields at its best value
\* scores exactly 100 with grade Excellent, and no other record (in the
\* vocabulary or not) reaches 100.
C5_BestIs100 ==
    \A k \in 1..Len(cond.outs) :
        /\ AllBest(CondInput(k)) =>
              (cond.outs[k].score = 100 /\ cond.outs[k].grade = "Excellent")
        /\ cond.outs[k].score = 100 => AllBest(CondInput(k))

\* C5 witness: the all-best record has been scored 100.
C5_Witness ==
    /\ Len(cond.outs) >= 1
    /\ AllBest(CondInput(1))
    /\ cond.outs[1].score = 100

GradeRank(g) ==
    CASE g = "Excellent" -> 4 [] g = "Very Good" -> 3 [] g = "Good" -> 2 [] g = "Fair" -> 1

MaxFmvSteps == 60

FmvInputs ==
    {DN(100, 1), DN(3300, 1), DZero, DInt(-1000)}
        \cup {DAdd(DInt(k * 75013), DN((k * 1237) % 10000, 1)) : k \in 1..MaxFmvSteps}

InitTxn ==
    \E fmv \in FmvInputs :
        /\ txn = [fmv |-> fmv, called |-> FALSE]
        /\ dep = Idle
        /\ odo = Idle
        /\ cond = Idle
        /\ val = Idle
        /\ InitEngines

CallTransactionPrices ==
    /\ ~txn.called
    /\ LET transaction_prices == calculate_transaction_prices(txn.fmv)
       IN  txn' = [fmv |-> txn.fmv, called |-> TRUE,
                   prices |-> transaction_prices,
                   range |-> ProcurementRange(transaction_prices)]
    /\ UNCHANGED <<lists, engine, dep, odo, cond, val>>

NextTxn == CallTransactionPrices

SpecTxn == InitTxn /\ [][NextTxn]_vars

(***************************************************************************)
(* Claims on the transaction price deriver.                                *)
(***************************************************************************)
\* C7: for every FMV > 0 the prices satisfy C2B < C2C < B2C and B2B < C2B,
\* and the procurement range satisfies trade_in_min <= trade_in_max = C2B.
C7_PriceOrder ==
    (txn.called /\ DLt(DZero, txn.fmv)) =>
        /\ DLt(txn.prices.c2b, txn.prices.c2c)
        /\ DLt(txn.prices.c2c, txn.prices.b2c)
        /\ DLt(txn.prices.b2b, txn.prices.c2b)
        /\ DLe(txn.range.trade_in_min, txn.range.trade_in_max)
        /\ txn.range.trade_in_max = txn.prices.c2b

\* C7 witness: the prices of a positive FMV of a few paise have been derived.
C7_Witness ==
    /\ txn.called
    /\ txn.fmv = DN(100, 1)
    /\ DLt(txn.prices.b2b, txn.prices.c2b)

\* C8: for every FMV, C2C = FMV, C2B = FMV * 0.88, B2C = FMV * 1.1416,
\* B2B = FMV * 0.80, and the procurement range is [C2B * 0.95, C2B * 1.00].
C8_PriceFormulas ==
    txn.called =>
        /\ txn.prices.c2c = txn.fmv
        /\ txn.prices.c2b = DMul(txn.fmv, Pct(88))
        /\ txn.prices.b2c = DMul(txn.fmv, Bp(11416))
        /\ txn.prices.b2b = DMul(txn.fmv, Pct(80))
        /\ txn.range.trade_in_min = DMul(DMul(txn.fmv, Pct(88)), Pct(95))
        /\ txn.range.trade_in_max = DMul(txn.fmv, Pct(88))

\* C8 witness: the prices of a six-digit FMV with paise have been derived.
C8_Witness ==
    /\ txn.called
    /\ txn.fmv = DAdd(DInt(750130), DN(2370, 1))
    /\ txn.prices.b2c = DMul(txn.fmv, Bp(11416))

(***************************************************************************)
(* valuation(vehicle), one action per numbered step of the method.         *)
(* val.call[c] is call c: pc is the step it executes next, e the engine    *)
(* (self), vehicle the VehicleInput, env the environment, loc the local    *)
(* variables assigned so far, result the ValuationResult object (whose     *)
(* warnings and recommendations are the ids of the engine's list objects)  *)
(* and returned the same object with the content its lists had at the      *)
(* return; own holds the entries the call itself has appended so far.      *)
(***************************************************************************)
Calls == {1, 2}

Self(c) == val.call[c]

\* a step that puts its entries in front of the lists (not the code)
AssignInFront(c, pc, new, ws, rs) ==
    /\ val' = [val EXCEPT !.call[c] =
                 [Self(c) EXCEPT !.pc = pc, !.loc = new @@ Self(c).loc,
                                 !.own = [warnings |-> @.warnings \o ws,
                                          recommendations |-> @.recommendations \o rs]]]
    /\ lists' = [lists EXCEPT ![engine[Self(c).e].warnings] = ws \o @,
                              ![engine[Self(c).e].recommendations] = rs \o @]
    /\ UNCHANGED <<engine, dep, odo, cond, txn>>

\* a step of call c that assigns the locals `new`, appends ws and rs to
\* self.warnings and self.recommendations and goes on to step pc
Assign(c, pc, new, ws, rs) ==
    /\ val' = [val EXCEPT !.call[c] =
                 [Self(c) EXCEPT !.pc = pc, !.loc = new @@ Self(c).loc,
                                 !.own = [warnings |-> @.warnings \o ws,
                                          recommendations |-> @.recommendations \o rs]]]
    /\ lists' = AppendAll(lists, Self(c).e, ws, rs)
    /\ UNCHANGED <<engine, dep, odo, cond, txn>>

\* a valuation that goes on with the lists it finds
ResetListsKept(c) ==
    /\ Self(c).pc = "reset"
    /\ val' = [val EXCEPT !.call[c].pc = "age"]
    /\ UNCHANGED <<lists, engine, dep, odo, cond, txn>>

\* self.warnings = []; self.recommendations = []: two new list objects
ResetLists(c) ==
    /\ Self(c).pc = "reset"
    /\ lists' = lists \o <<<<>>, <<>>>>
    /\ engine' = [engine EXCEPT ![Self(c).e] =
                     [warnings |-> Len(lists) + 1, recommendations |-> Len(lists) + 2]]
    /\ val' = [val EXCEPT !.call[c].pc = "age"]
    /\ UNCHANGED <<dep, odo, cond, txn>>

VehicleAge(c) ==
    /\ Self(c).pc = "age"
    /\ Assign(c, "base_price",
              [age_years |-> calculate_vehicle_age(Self(c).vehicle.registration_date,
                                                   Self(c).env.today)],
              <<>>, <<>>)

\* a step of call c whose outcome is out = [new, warnings, recommendations]
AssignOut(c, pc, out) == Assign(c, pc, out.new, out.warnings, out.recommendations)

\* step 2, r being what the resolver returned and appended
BasePriceOut(r, disc) ==
    [new |-> [base_price |-> r.price],
     warnings |-> r.warnings,
     recommendations |->
         r.recommendations
             \o <<Msg(IF disc THEN "discontinued_model" ELSE "current_production", <<>>)>>]

ResolveBasePrice(vehicle, env) ==
    IF is_discontinued(vehicle.make, vehicle.model)
    THEN BasePriceOut(
             get_original_on_road_price(vehicle.make, vehicle.model, vehicle.variant,
                 vehicle.year, vehicle.registration_date.month, vehicle.fuel_type,
                 "telangana", env),
             TRUE)
    ELSE BasePriceOut(
             get_current_on_road_price(vehicle.make, vehicle.model, vehicle.variant,
                 vehicle.fuel_type, "telangana", env),
             FALSE)

BasePrice(c) ==
    /\ Self(c).pc = "base_price"
    /\ AssignOut(c, "depreciation", ResolveBasePrice(Self(c).vehicle, Self(c).env))

\* step 3, d being what calculate_segmented_depreciation returned
DepreciationOut(d) ==
    [new |-> [depreciated_value |-> d.value, dep_breakdown |-> d.breakdown,
              dep_percentage |-> d.depreciation_percentage],
     warnings |-> <<>>, recommendations |-> <<>>]

Depreciation(c) ==
    /\ Self(c).pc = "depreciation"
    /\ AssignOut(c, "odometer",
                 DepreciationOut(calculate_segmented_depreciation(
                                     Self(c).loc.age_years, Self(c).loc.base_price)))

\* step 4, o being what calculate_odometer_adjustment returned and appended
OdometerOut(o, depreciated_value) ==
    [new |-> [usage_factor |-> o.usage_factor, odo_deviation |-> o.odometer_deviation,
              expected_odo |-> o.expected_odometer,
              usage_adjusted_value |-> DMul(depreciated_value, o.usage_factor)],
     warnings |-> o.warnings, recommendations |-> o.recommendations]

Odometer(c) ==
    /\ Self(c).pc = "odometer"
    /\ AssignOut(c, "condition",
                 OdometerOut(calculate_odometer_adjustment(Self(c).loc.age_years,
                                 Self(c).vehicle.odometer, Self(c).vehicle.fuel_type),
                             Self(c).loc.depreciated_value))

\* step 5, s being what calculate_condition_score returned and appended
ConditionOut(s, condition_multiplier, usage_adjusted_value) ==
    [new |-> [condition_score |-> s.score, condition_grade |-> s.grade,
              condition_breakdown |-> s.breakdown,
              condition_multiplier |-> condition_multiplier,
              condition_adjusted_value |-> DMul(usage_adjusted_value, condition_multiplier)],
     warnings |-> s.warnings, recommendations |-> <<>>]

ConditionOf(s, usage_adjusted_value) ==
    ConditionOut(s, get_condition_multiplier(s.grade), usage_adjusted_value)

Condition(c) ==
    /\ Self(c).pc = "condition"
    /\ AssignOut(c, "ownership",
                 ConditionOf(calculate_condition_score(Self(c).vehicle),
                             Self(c).loc.usage_adjusted_value))

\* step 6
OwnershipOut(ownership_multiplier, condition_adjusted_value) ==
    [new |-> [ownership_multiplier |-> ownership_multiplier,
              value_after_ownership |-> DMul(condition_adjusted_value, ownership_multiplier)],
     warnings |-> <<>>, recommendations |-> <<>>]

Ownership(c) ==
    /\ Self(c).pc = "ownership"
    /\ AssignOut(c, "location",
                 OwnershipOut(calculate_ownership_factor(Self(c).vehicle.owners),
                              Self(c).loc.condition_adjusted_value))

\* step 7, h being what calculate_hyderabad_factor returned and appended
LocationOut(h, value_after_ownership) ==
    [new |-> [location_multiplier |-> h.multiplier,
              value_after_location |-> DMul(value_after_ownership, h.multiplier)],
     warnings |-> <<>>, recommendations |-> h.recommendations]

Location(c) ==
    /\ Self(c).pc = "location"
    /\ AssignOut(c, "sentiment",
                 LocationOut(calculate_hyderabad_factor(Self(c).vehicle.make,
                                 Self(c).vehicle.model, Self(c).vehicle.fuel_type,
                                 Self(c).loc.age_years),
                             Self(c).loc.value_after_ownership))

\* step 8 with the analyzer: s is what calculate_market_sentiment_multiplier
\* returned, b what get_brand_resale_multiplier returned
SentimentOut(s, b, value_after_location) ==
    [new |-> [market_sentiment_multiplier |-> DMul(s.total_multiplier, b.multiplier),
              final_fmv |-> DMul(value_after_location,
                                 DMul(s.total_multiplier, b.multiplier))],
     warnings |-> <<>>,
     recommendations |->
         <<Quote("market_sentiment", s.breakdown.notes),
           Quote("fuel_type", s.breakdown.fuel_type.reason),
           Quote("segment", s.breakdown.segment.reason),
           Quote("brand", b.reason)>>]

\* step 8
MarketSentiment(vehicle, env, value_after_location) ==
    IF env.modules.market_sentiment
    THEN SentimentOut(calculate_market_sentiment_multiplier(vehicle.make, vehicle.model,
                          vehicle.fuel_type, vehicle.year, env.today.year),
                      get_brand_resale_multiplier(vehicle.make),
                      value_after_location)
    ELSE [new |-> [market_sentiment_multiplier |-> Pct(100),
                   final_fmv |-> DMul(value_after_location, Pct(100))],
          warnings |-> <<>>, recommendations |-> <<>>]

Sentiment(c) ==
    /\ Self(c).pc = "sentiment"
    /\ AssignOut(c, "prices",
                 MarketSentiment(Self(c).vehicle, Self(c).env,
                                 Self(c).loc.value_after_location))

\* step 9
PricesOut(transaction_prices, range) ==
    [new |-> [transaction_prices |-> transaction_prices,
              trade_in_min |-> range.trade_in_min,
              trade_in_max |-> range.trade_in_max],
     warnings |-> <<>>, recommendations |-> <<>>]

PricesOf(transaction_prices) ==
    PricesOut(transaction_prices, ProcurementRange(transaction_prices))

Prices(c) ==
    /\ Self(c).pc = "prices"
    /\ AssignOut(c, "findings", PricesOf(calculate_transaction_prices(Self(c).loc.final_fmv)))

\* step 10: the final recommendations
Findings(c) ==
    /\ Self(c).pc = "findings"
    /\ Assign(c, "result", Self(c).loc,
              IF Self(c).vehicle.owners >= 3
              THEN <<Msg("many_owners", <<Self(c).vehicle.owners>>)>> ELSE <<>>,
              IF Self(c).loc.condition_grade = "Excellent"
              THEN <<Msg("excellent_condition", <<>>)>>
              ELSE IF Self(c).loc.condition_grade = "Fair"
              THEN <<Msg("fair_condition", <<>>)>>
              ELSE <<>>)

\* the ValuationResult built from the locals; its two lists are the list
\* objects self.warnings and self.recommendations, not copies
ValuationResult(loc, warnings, recommendations) ==
    [fair_market_value        |-> Round2(loc.final_fmv),
     retail_price             |-> Round2(loc.transaction_prices.b2c),
     trade_in_price           |-> Round2(loc.transaction_prices.c2b),
     wholesale_price          |-> Round2(loc.transaction_prices.b2b),
     base_price               |-> Round2(loc.base_price),
     depreciated_value        |-> Round2(loc.depreciated_value),
     usage_adjusted_value     |-> Round2(loc.usage_adjusted_value),
     condition_adjusted_value |-> Round2(loc.condition_adjusted_value),
     depreciation_percentage  |-> Round2(loc.dep_percentage),
     usage_factor             |-> Round4(loc.usage_factor),
     condition_score          |-> loc.condition_score,
     condition_multiplier     |-> Round2(loc.condition_multiplier),
     ownership_multiplier     |-> Round2(loc.ownership_multiplier),
     location_multiplier      |-> Round2(loc.location_multiplier),
     condition_grade          |-> loc.condition_grade,
     odometer_deviation       |-> loc.odo_deviation,
     expected_odometer        |-> loc.expected_odo,
     trade_in_min             |-> Round2(loc.trade_in_min),
     trade_in_max             |-> Round2(loc.trade_in_max),
     depreciation_breakdown   |-> loc.dep_breakdown,
     condition_breakdown      |-> loc.condition_breakdown,
     warnings                 |-> warnings,
     recommendations          |-> recommendations]

\* the call record once `result` has been returned: `returned` is the
\* result with the content its lists have now
Returned(k, result) ==
    [k EXCEPT !.pc = "done",
              !.result = result,
              !.returned = [result EXCEPT !.warnings = lists[result.warnings],
                                          !.recommendations = lists[result.recommendations]]]

Return(c) ==
    /\ Self(c).pc = "result"
    /\ val' = [val EXCEPT !.call[c] =
                 Returned(Self(c),
                          ValuationResult(Self(c).loc, engine[Self(c).e].warnings,
                                          engine[Self(c).e].recommendations))]
    /\ UNCHANGED <<lists, engine, dep, odo, cond, txn>>

\* steps 3 to 9 and the construction of the result
CoreStep(c) ==
    \/ Depreciation(c)
    \/ Odometer(c)
    \/ Condition(c)
    \/ Ownership(c)
    \/ Location(c)
    \/ Sentiment(c)
    \/ Prices(c)
    \/ Findings(c)
    \/ Return(c)

(***************************************************************************)
(* Inputs of the valuation calls.                                          *)
(***************************************************************************)
\* VehicleInput(...), the inspection fields given as one record
VehicleInput(make, model, variant, year, registration_date, fuel_type, odometer, owners, inspection) ==
    [make |-> make, model |-> model, variant |-> variant, year |-> year,
     registration_date |-> registration_date, fuel_type |-> fuel_type,
     odometer |-> odometer, owners |-> owners, transmission |-> "Manual",
     location |-> "Hyderabad"] @@ inspection

AllModules == [price_fetcher |-> TRUE, historical_prices |-> TRUE, market_sentiment |-> TRUE]

Environment(today, fetch, modules) == [today |-> today, fetch |-> fetch, modules |-> modules]

NoPrice == [kind |-> "none", price |-> 0]

NewCall(e, vehicle, env, pc, loc) ==
    [pc |-> pc, e |-> e, vehicle |-> vehicle, env |-> env, loc |-> loc,
     own |-> [warnings |-> <<>>, recommendations |-> <<>>],
     result |-> Idle, returned |-> Idle]

\* a call that is never made
NoCall == NewCall(1, Idle, Idle, "off", Idle)

(***************************************************************************)
(* SpecCore: steps 3 to 10 of one valuation and the construction of its    *)
(* result, started after steps 1 and 2 have assigned age_years and         *)
(* base_price.                                                             *)
(***************************************************************************)
CoreAgeUnits == {25000, 30000, 55000}
CorePrices == {700000, 1000000}
CoreFuels == {"Petrol", "Diesel"}
CoreOdometers == {33000, 45000, 150000}
CoreOwners == {1, 3}
CoreInspections == BaseInspections \cup {WithField(GoodInspection, "tire_tread", 50)}

InitCore ==
    \E u \in CoreAgeUnits, p \in CorePrices, fuel \in CoreFuels, km \in CoreOdometers,
       owners \in CoreOwners, inspection \in CoreInspections, sentiment \in BOOLEAN :
        /\ val = [call |-> (1 :> NewCall(1,
                               VehicleInput("Maruti", "Swift", "VXi", 2023, Date(2023, 11, 6),
                                            fuel, km, owners, inspection),
                               Environment(Date(2026, 11, 6), NoPrice,
                                           [AllModules EXCEPT !.market_sentiment = sentiment]),
                               "depreciation",
                               [age_years |-> AgeOf(u), base_price |-> DInt(p)]))
                          @@ (2 :> NoCall),
                  direct |-> 0]
        /\ dep = Idle
        /\ odo = Idle
        /\ cond = Idle
        /\ txn = Idle
        /\ InitEngines

NextCore == \E c \in Calls : CoreStep(c)

SpecCore == InitCore /\ [][NextCore]_vars

(***************************************************************************)
(* Claims on the pipeline from depreciation to the derived prices.         *)
(***************************************************************************)
\* the scenario: petrol, age exactly 3 years, base on-road price 700,000,
\* 45,000 km, one owner, "Good" in every graded inspection field and
\* nothing adverse reported
Scenario(k) ==
    /\ k.vehicle.fuel_type = "Petrol"
    /\ k.loc.age_years = DInt(3)
    /\ k.loc.base_price = DInt(700000)
    /\ k.vehicle.odometer = 45000
    /\ k.vehicle.owners = 1
    /\ \A f \in Fields : k.vehicle[f] = GoodInspection[f]

\* the product of the factors of the pipeline, in the order they are applied
FactorProduct(loc) ==
    DMul(DMul(DMul(DMul(DMul(loc.depreciated_value, loc.usage_factor),
                             loc.condition_multiplier),
                        loc.ownership_multiplier),
                   loc.location_multiplier),
         loc.market_sentiment_multiplier)

Creta == VehicleInput("Hyundai", "Creta", "SX", 2021, Date(2021, 3, 15), "Diesel",
                      62000, 1, DefaultInspection)
City  == VehicleInput("Honda", "City", "VX", 2022, Date(2022, 11, 6), "Petrol",
                      48000, 2, WithField(DefaultInspection, "electrical_issues", TRUE))
Figo  == VehicleInput("Ford", "Figo", "Titanium", 2017, Date(2017, 8, 1), "Diesel",
                      240000, 3, WorstInspection)
Tiago == VehicleInput("Tata", "Tiago", "XZ", 2019, Date(2019, 1, 20), "Petrol",
                      5000, 4, GoodInspection)

Today == Date(2026, 11, 6)

EnvSegment == Environment(Today, NoPrice, AllModules)
EnvFetched == Environment(Today, [kind |-> "price", price |-> 1100000], AllModules)
EnvRaised  == Environment(Date(2025, 6, 30), [kind |-> "raise", price |-> 0], AllModules)
EnvBare    == Environment(Today, [kind |-> "price", price |-> 200000],
                          [price_fetcher |-> TRUE, historical_prices |-> FALSE,
                           market_sentiment |-> FALSE])

\* the inputs of a valuation call: <<vehicle, env>>
Scenarios ==
    {<<Creta, EnvSegment>>, <<City, EnvSegment>>, <<Figo, EnvSegment>>,
     <<Tiago, EnvRaised>>, <<Creta, EnvFetched>>, <<Figo, EnvBare>>}

MaxDirectCalls == 1

Init ==
    \E s1 \in Scenarios, s2 \in Scenarios, e1 \in Engines, e2 \in Engines :
        /\ val = [call |-> (1 :> NewCall(e1, s1[1], s1[2], "reset", <<>>))
                          @@ (2 :> NewCall(e2, s2[1], s2[2], "reset", <<>>)),
                  direct |-> 0]
        /\ dep = Idle
        /\ odo = Idle
        /\ cond = Idle
        /\ txn = Idle
        /\ InitEngines

Running(c) == Self(c).pc \notin {"reset", "done", "off"}

\* call 1 is made first, call 2 after call 1 has returned
Turn(c) == \A d \in Calls : d < c => Self(d).pc = "done"

\* engine e's calculate_odometer_adjustment called on its own, for a
\* three-year-old petrol car showing 1,000 km
DirectOdometer(e) ==
    /\ val.direct < MaxDirectCalls
    /\ \A c \in Calls : ~Running(c)
    /\ lists' = AppendOut(lists, e, calculate_odometer_adjustment(DInt(3), 1000, "Petrol"))
    /\ val' = [val EXCEPT !.direct = @ + 1]
    /\ UNCHANGED <<engine, dep, odo, cond, txn>>

\* valuation is entered
Start(c) == Turn(c) /\ ResetLists(c)

Next ==
    \/ \E c \in Calls :
        \/ Start(c)
        \/ VehicleAge(c)
        \/ BasePrice(c)
        \/ CoreStep(c)
    \/ \E e \in Engines : DirectOdometer(e)

Spec == Init /\ [][Next]_vars


(***************************************************************************)
(* Claims on valuation as a whole.                                         *)
(***************************************************************************)
SameInputs(c, d) ==
    /\ Self(c).vehicle = Self(d).vehicle
    /\ Self(c).env = Self(d).env

\* the result object of call c as it reads now
Live(c) ==
    [Self(c).result EXCEPT !.warnings = lists[Self(c).result.warnings],
                           !.recommendations = lists[Self(c).result.recommendations]]

\* C10: two valuation calls with the same VehicleInput, the same resolver
\* outcome and the same "today" return the same ValuationResult, lists
\* included and in the same order, on one engine one after the other as well
\* as on two engines, whatever was called on the engines before; and unless
\* a calculator was called directly on an engine, the two result objects
\* still read the same once both calls have returned.
C10_Determinism ==
    \A c \in Calls, d \in Calls :
        (Self(c).pc = "done" /\ Self(d).pc = "done" /\ SameInputs(c, d)) =>
            /\ Self(c).returned = Self(d).returned
            /\ val.direct = 0 => Live(c) = Live(d)

\* the same inputs have been valued twice on one engine, a direct call of
\* the odometer calculator on that engine having left its entries in the
\* lists before the second valuation, and the result carries warnings and
\* recommendations
C10_Witness ==
    /\ Self(1).pc = "done"
    /\ Self(2).pc = "done"
    /\ SameInputs(1, 2)
    /\ Self(1).e = Self(2).e
    /\ val.direct > 0
    /\ Live(1) # Self(1).returned
    /\ Self(2).returned.warnings # <<>>
    /\ Len(Self(2).returned.recommendations) > 3

(***************************************************************************)
(* SpecCall: one valuation call from its entry to its return, on engine 1. *)
(* The inputs are a four-year-old petrol Honda City with every combination *)
(* of the reported anomalies and odometer readings around the tamper       *)
(* threshold (8,000 km) and the barrier (90,000 km above the 44,000 km     *)
(* expected); the same car with values outside the documented ranges; and  *)
(* four models under every outcome of the price fetcher.                   *)
(***************************************************************************)
CallOdometers == {1000, 7999, 8000, 48000, 134000, 134001, 200000}
CallTreads == {29, 30}

\* the inspected car: registered four years (1461 days) before Today
Inspected(odometer, owners, inspection) ==
    VehicleInput("Honda", "City", "VX", 2022, Date(2022, 11, 6), "Petrol",
                 odometer, owners, inspection)

AnomalyInputs ==
    {<<Inspected(km, 1, [DefaultInspection EXCEPT !.frame_damage = frame,
                                                   !.accident_history = accident,
                                                   !.electrical_issues = electrical,
                                                   !.tire_tread = tread]),
       EnvSegment>> :
        frame \in BOOLEAN, accident \in BOOLEAN, electrical \in BOOLEAN,
        tread \in CallTreads, km \in CallOdometers}

\* VehicleInput is a plain dataclass: it takes any integers
OutOfRangeInputs ==
    {<<Inspected(-5000, 1, DefaultInspection), EnvSegment>>,
     <<Inspected(48000, 0, DefaultInspection), EnvSegment>>,
     <<Inspected(48000, -1, DefaultInspection), EnvSegment>>,
     <<Inspected(48000, 1, WithField(DefaultInspection, "tire_tread", -5)), EnvSegment>>,
     <<Inspected(48000, 1, WithField(DefaultInspection, "tire_tread", 150)), EnvSegment>>}

\* a model none of the price tables knows
Zeta == VehicleInput("Acme", "Zeta", "LX", 2020, Date(2020, 5, 1), "Petrol",
                     60000, 1, DefaultInspection)
\* a discontinued model that historical_segments does not list
Punto == VehicleInput("Fiat", "Punto", "Emotion", 2016, Date(2016, 2, 10), "Petrol",
                      90000, 2, DefaultInspection)

\* what price_fetcher.get_current_price does: returns None, raises, returns
\* a price below or above the accepted range, returns an accepted price
FetchOutcomes ==
    {NoPrice, [kind |-> "raise", price |-> 0], [kind |-> "price", price |-> 200000],
     [kind |-> "price", price |-> 20000000], [kind |-> "price", price |-> 1100000]}

ResolverInputs ==
    {<<v, Environment(Today, fetch, [AllModules EXCEPT !.historical_prices = h])>> :
        v \in {City, Figo, Punto, Zeta}, fetch \in FetchOutcomes, h \in BOOLEAN}

InitCall ==
    \E s \in AnomalyInputs \cup OutOfRangeInputs \cup ResolverInputs :
        /\ val = [call |-> (1 :> NewCall(1, s[1], s[2], "reset", <<>>)) @@ (2 :> NoCall),
                  direct |-> 0]
        /\ dep = Idle
        /\ odo = Idle
        /\ cond = Idle
        /\ txn = Idle
        /\ InitEngines

NextCall ==
    \E c \in Calls :
        \/ Start(c)
        \/ VehicleAge(c)
        \/ BasePrice(c)
        \/ CoreStep(c)

SpecCall == InitCall /\ [][NextCall]_vars

(***************************************************************************)
(* Claims on the findings and failures of one valuation.                   *)
(***************************************************************************)
\* the fields of a ValuationResult
ResultFields ==
    {"fair_market_value", "retail_price", "trade_in_price", "wholesale_price",
     "base_price", "depreciated_value", "usage_adjusted_value",
     "condition_adjusted_value", "depreciation_percentage", "usage_factor",
     "condition_score", "condition_multiplier", "ownership_multiplier",
     "location_multiplier", "condition_grade", "odometer_deviation",
     "expected_odometer", "trade_in_min", "trade_in_max", "depreciation_breakdown",
     "condition_breakdown", "warnings", "recommendations"}

\* int(age * standard mileage) of the call's vehicle
ExpectedOf(k) ==
    DTrunc(DMul(k.loc.age_years, DInt(STANDARD_MILEAGE(k.vehicle.fuel_type))))

\* actual odometer < age * 2000
LowOdometer(k) == DLt(DInt(k.vehicle.odometer), DMul(k.loc.age_years, DInt(2000)))

\* the steps of valuation in order; none of them raises, so a call is at one
\* of them until it has returned
ValuationSteps ==
    {"reset", "age", "base_price", "depreciation", "odometer", "condition", "ownership",
     "location", "sentiment", "prices", "findings", "result", "done"}

\* the result of the returned call k is complete and warns of exactly the
\* anomalies of its vehicle
AnomaliesWarned(k) ==
    /\ DOMAIN k.returned = ResultFields
    /\ DLt(DZero, k.returned.fair_market_value)
    /\ HasTag(k.returned.warnings, "frame_damage") <=> k.vehicle.frame_damage
    /\ HasTag(k.returned.warnings, "accident_history") <=> k.vehicle.accident_history
    /\ HasTag(k.returned.warnings, "electrical") <=> k.vehicle.electrical_issues
    /\ HasTag(k.returned.warnings, "tires_worn") <=> k.vehicle.tire_tread < 30
    /\ HasTag(k.returned.warnings, "tamper") <=> LowOdometer(k)
    /\ HasTag(k.returned.warnings, "barrier_100k")
          <=> k.vehicle.odometer - ExpectedOf(k) > 90000

\* C11: data-quality anomalies never abort a valuation: for every
\* combination of frame damage, accident history, electrical issues, tire
\* tread below 30%, suspiciously low odometer and excess deviation above
\* 90,000 km the call goes on to return a complete ValuationResult whose
\* warnings hold the warning of each anomaly that is present and of none that
\* is absent.
C11_AnomaliesWarned ==
    /\ Self(1).pc \in ValuationSteps
    /\ Self(1).pc = "done" => AnomaliesWarned(Self(1))

\* C11 witness: a car with all four reported anomalies and a reading 90,001
\* km above the expected one has been valued and carries the five warnings.
C11_Witness ==
    /\ Self(1).pc = "done"
    /\ LET v == Self(1).vehicle
           w == Self(1).returned.warnings
       IN  /\ v.frame_damage /\ v.accident_history /\ v.electrical_issues
           /\ v.tire_tread = 29 /\ v.odometer = 134001
           /\ HasTag(w, "barrier_100k") /\ HasTag(w, "tires_worn")
           /\ Len(w) = 5

\* the documented ranges of a VehicleInput
ValidInput(v) == v.odometer >= 0 /\ v.owners >= 1 /\ v.tire_tread \in 0..100

\* the call k has an input outside its ranges or a resolved base price that
\* is not positive
Invalid(k) ==
    \/ ~ValidInput(k.vehicle)
    \/ "base_price" \in DOMAIN k.loc /\ DLe(k.loc.base_price, DZero)

\* C12: a valuation call whose input has a negative odometer, an owner count
\* below 1 or a tire tread outside [0,100], or whose resolved base price is
\* not positive, is rejected before any calculation: no calculator runs for
\* it (its locals never go beyond the age and the base price) and it returns
\* no ValuationResult.
C12_InvalidRejected ==
    \A c \in Calls :
        (Self(c).pc \in ValuationSteps /\ Invalid(Self(c))) =>
            /\ Self(c).pc # "done"
            /\ DOMAIN Self(c).loc \subseteq {"age_years", "base_price"}

\* the fetcher gave no usable price: it returned None, raised, or its price
\* was outside 300,000..15,000,000
ResolverFailed(env) == FetchedPrice(env) = 0

\* the warnings the two resolvers append when they estimate the price
FallbackWarnings ==
    {"estimated_not_in_database", "on_road_unavailable", "on_road_unavailable_buffer"}

\* C13: when the base-price resolver fails (raises, returns null or returns
\* a price outside 300,000..15,000,000) valuation goes on with a strictly
\* positive fallback estimate, returns a ValuationResult and has recorded in
\* the warnings list that a fallback price was used, on the
\* current-production path and on the discontinued-model path alike.
C13_FallbackWarned ==
    \A c \in Calls :
        (Self(c).pc = "done" /\ ResolverFailed(Self(c).env)) =>
            /\ DOMAIN Self(c).returned = ResultFields
            /\ DLt(DZero, Self(c).returned.base_price)
            /\ \E tag \in FallbackWarnings : HasTag(Self(c).returned.warnings, tag)

(***************************************************************************)
(* SpecPar: two valuation calls for different vehicles running at the same *)
(* time, on one engine or on two, their steps interleaved in every order.  *)
(***************************************************************************)
ParallelPairs == {<<City, Figo>>, <<Tiago, Creta>>}

InitPar ==
    \E p \in ParallelPairs, e2 \in Engines :
        /\ val = [call |-> (1 :> NewCall(1, p[1], EnvSegment, "reset", <<>>))
                          @@ (2 :> NewCall(e2, p[2], EnvSegment, "reset", <<>>)),
                  direct |-> 0]
        /\ dep = Idle
        /\ odo = Idle
        /\ cond = Idle
        /\ txn = Idle
        /\ InitEngines

NextPar ==
    \E c \in Calls :
        \/ ResetLists(c)
        \/ VehicleAge(c)
        \/ BasePrice(c)
        \/ CoreStep(c)

SpecPar == InitPar /\ [][NextPar]_vars

(***************************************************************************)
(* Claims on concurrent calls and on returned results.                     *)
(***************************************************************************)
\* C14: concurrent valuations do not interfere: when two valuation calls for
\* different vehicles run with their steps interleaved in any order, on two
\* engines or on one shared engine, the warnings and recommendations of each
\* returned ValuationResult are exactly the entries produced for its own
\* vehicle: none of the other call's, none missing.
C14_Isolated ==
    \A c \in Calls :
        Self(c).pc = "done" =>
            /\ Self(c).returned.warnings = Self(c).own.warnings
            /\ Self(c).returned.recommendations = Self(c).own.recommendations

\* calls on two engines keep their entries apart
C14_TwoEngines ==
    \A c \in Calls :
        (Self(c).pc = "done" /\ Self(1).e # Self(2).e) =>
            /\ Self(c).returned.warnings = Self(c).own.warnings
            /\ Self(c).returned.recommendations = Self(c).own.recommendations

\* C15: a ValuationResult is immutable once returned: whatever is called on
\* the same engine afterwards (a second valuation, a direct call of a
\* calculator), every field of the result, the contents of its warnings and
\* recommendations lists included, reads as it did at the return.
C15_Immutable ==
    \A c \in Calls : Self(c).pc = "done" => Live(c) = Self(c).returned

\* C16: the usage multiplier is floored at 0.4: every call returns a
\* multiplier >= 0.4, the multiplier is 1 - pct/100 whenever the total
\* penalty pct is at most 60%, and it is exactly 0.4 for every excess
\* deviation of 140,000 km or more.
C16_Floor ==
    \A k \in OdoCalls :
        LET pct == odo.outs[k].ret.penalty_percentage
            f   == odo.outs[k].ret.usage_factor
        IN  /\ DLe(Pct(40), f)
            /\ DLe(pct, DInt(60)) => f = DSub(DOne, DMul(pct, Pct(1)))
            /\ OdoExcess(k) >= 140000 => f = Pct(40)

\* C16 witness: an excess of exactly 140,000 km was charged 60% and one of
\* 200,000 km 96%, and both calls returned 0.4; the lower reading came first.
C16_Witness ==
    /\ Len(odo.outs) = 2
    /\ OdoExcess(1) = 140000 /\ OdoExcess(2) = 200000
    /\ odo.outs[1].ret.penalty_percentage = DInt(60)
    /\ odo.outs[2].ret.penalty_percentage = DInt(96)
    /\ odo.outs[1].ret.usage_factor = Pct(40)
    /\ odo.outs[2].ret.usage_factor = Pct(40)

\* C17: the odometer deviation a call returns is the actual reading minus
\* the expected one, the expected one being age x standard annual mileage of
\* the fuel type (Petrol 11,000, Diesel 16,500, CNG 20,000, Electric 11,000),
\* for every input, those that trigger the tamper heuristic included.
C17_Deviation ==
    \A k \in OdoCalls :
        /\ odo.outs[k].ret.expected_odometer = OdoExpected
        /\ odo.outs[k].ret.odometer_deviation = DInt(odo.readings[k] - OdoExpected)

\* without the tamper heuristic the deviation is actual minus expected
C17_Untampered ==
    \A k \in OdoCalls :
        /\ odo.outs[k].ret.expected_odometer = OdoExpected
        /\ ~OdoTamper(k) =>
              odo.outs[k].ret.odometer_deviation = DInt(odo.readings[k] - OdoExpected)

\* 1.5% per 10,000 km of 30% of the expected reading, capped at 10%
TamperBonusCap ==
    DMin(DMul(DMul(Bp(15000), Pct(30)), DMul(DInt(OdoExpected), DN(1, 1))), DInt(10))

\* C18: whenever the actual odometer is below age x 2000 the call appends a
\* tamper-suspicion warning and the deviation it uses is never below -30% of
\* the expected odometer, so the low-mileage bonus of a tamper-suspected
\* vehicle is at most min(1.5% x 0.3 x expected / 10,000, 10%); when the
\* actual odometer is at least age x 2000 no tamper warning is appended and
\* the deviation is not clamped.
C18_Tamper ==
    \A k \in OdoCalls :
        LET ret == odo.outs[k].ret
        IN  /\ OdoTamper(k) =>
                  /\ HasTag(OdoWarned(k), "tamper")
                  /\ DLe(DMul(DInt(-OdoExpected), Pct(30)), ret.odometer_deviation)
                  /\ DLe(DNeg(ret.penalty_percentage), TamperBonusCap)
                  /\ DLe(ret.usage_factor,
                         DAdd(DOne, DMul(TamperBonusCap, Pct(1))))
            /\ ~OdoTamper(k) =>
                  /\ ~HasTag(OdoWarned(k), "tamper")
                  /\ ret.odometer_deviation = DInt(OdoExcess(k))

\* C18 witness: a three-year-old petrol car showing 5,999 km was warned of
\* and its deviation of -27,001 km cut to -9,900 km, and the same car
\* showing 6,000 km was neither warned of nor clamped.
C18_Witness ==
    /\ Len(odo.outs) = 2
    /\ odo.age = 30000 /\ odo.fuel = "Petrol"
    /\ odo.readings = <<5999, 6000>>
    /\ HasTag(OdoWarned(1), "tamper")
    /\ odo.outs[1].ret.odometer_deviation = DInt(-9900)
    /\ odo.outs[1].ret.penalty_percentage = DNeg(DN(14850, 1))
    /\ odo.outs[2].ret.odometer_deviation = DInt(-27000)
    /\ odo.outs[2].ret.penalty_percentage = DNeg(DN(40500, 1))
    /\ ~HasTag(OdoWarned(2), "tamper")

\* what call k appended to self.recommendations
OdoRecommended(k) ==
    SubSeq(lists[engine[1].recommendations], odo.outs[k].r0 + 1,
           IF k < Len(odo.outs) THEN odo.outs[k + 1].r0
           ELSE Len(lists[engine[1].recommendations]))

\* the number of entries of q with the given tag
CountTag(q, tag) == Cardinality({i \in 1..Len(q) : q[i].tag = tag})

C20_GradeAndMultiplier ==
    \A k \in 1..Len(cond.outs) :
        LET s == cond.outs[k].score
            g == cond.outs[k].grade
            m == cond.outs[k].multiplier
        IN  /\ g = "Excellent" <=> s >= 90
            /\ g = "Very Good" <=> (s >= 75 /\ s < 90)
            /\ g = "Good" <=> (s >= 50 /\ s < 75)
            /\ g = "Fair" <=> s < 50
            /\ g = "Excellent" => m = Pct(110)
            /\ g = "Very Good" => m = Pct(105)
            /\ g = "Good" => m = DOne
            /\ g = "Fair" => m = Pct(85)
            /\ \A j \in 1..Len(cond.outs) :
                  cond.outs[j].score <= s => DLe(cond.outs[j].multiplier, m)

\* C20 witness: a record scoring exactly 75 was graded Very Good at 1.05 and,
\* with frame damage, exactly 50 and Good at 1.00.
C20_Witness ==
    /\ Len(cond.outs) = 2
    /\ cond.outs[1].score = 75 /\ cond.outs[1].multiplier = Pct(105)
    /\ cond.outs[2].score = 50 /\ cond.outs[2].multiplier = DOne

(***************************************************************************)
(* SpecFactor: calculate_ownership_factor called for two owner counts      *)
(* val.owners[1] <= val.owners[2], and calculate_hyderabad_factor called   *)
(* once on engine 1 for a model name, a fuel type and an age around the    *)
(* limits 3 and 5 years.  val.own_outs and val.loc_outs hold what the      *)
(* calls returned.                                                         *)
(***************************************************************************)
MaxOwners == 5

FactorModels == {"Creta", "CITY ZX", "Swift", "Elite i20"}
FactorAgeUnits == {29999, 30000, 40000, 50000, 50001, 80000}

InitFactor ==
    \E n1 \in 1..MaxOwners, n2 \in 1..MaxOwners, model \in FactorModels,
       fuel \in FuelTypes, u \in FactorAgeUnits :
        /\ n1 <= n2
        /\ val = [owners |-> <<n1, n2>>, make |-> "Any", model |-> model, fuel |-> fuel,
                  age |-> u, own_outs |-> <<>>, loc_outs |-> <<>>]
        /\ dep = Idle
        /\ odo = Idle
        /\ cond = Idle
        /\ txn = Idle
        /\ InitEngines

CallOwnership ==
    /\ Len(val.own_outs) < 2
    /\ val' = [val EXCEPT !.own_outs =
                 Append(@, calculate_ownership_factor(val.owners[Len(val.own_outs) + 1]))]
    /\ UNCHANGED <<lists, engine, dep, odo, cond, txn>>

\* the call of calculate_hyderabad_factor that returned h
LocationCalled(h) ==
    /\ lists' = AppendAll(lists, 1, <<>>, h.recommendations)
    /\ val' = [val EXCEPT !.loc_outs = Append(@, h.multiplier)]
    /\ UNCHANGED <<engine, dep, odo, cond, txn>>

CallLocation ==
    /\ Len(val.loc_outs) < 1
    /\ LocationCalled(calculate_hyderabad_factor(val.make, val.model, val.fuel,
                                                 AgeOf(val.age)))

NextFactor == CallOwnership \/ CallLocation

SpecFactor == InitFactor /\ [][NextFactor]_vars

(***************************************************************************)
(* Claims on the ownership and location multipliers.                       *)
(***************************************************************************)
\* C21: the ownership multiplier is 1.00 for 1 owner, 0.93 for 2, 0.85 for 3
\* and 0.75 for every owner count of 4 or more, so it is non-increasing in
\* the owner count for all owner counts >= 1.
C21_Ownership ==
    /\ \A k \in 1..Len(val.own_outs) :
          /\ val.owners[k] = 1 => val.own_outs[k] = DOne
          /\ val.owners[k] = 2 => val.own_outs[k] = Pct(93)
          /\ val.owners[k] = 3 => val.own_outs[k] = Pct(85)
          /\ val.owners[k] >= 4 => val.own_outs[k] = Pct(75)
    /\ Len(val.own_outs) = 2 => DLe(val.own_outs[2], val.own_outs[1])

\* C21 witness: the factor has been taken for three owners and for an owner
\* count beyond the table.
C21_Witness ==
    /\ Len(val.own_outs) = 2
    /\ val.owners = <<3, 5>>
    /\ val.own_outs = <<Pct(85), Pct(75)>>

\* the model name holds one of the high-demand keywords
HighDemand(model) ==
    \E key \in {"baleno", "i20", "creta", "venue", "seltos", "city", "verna"} :
        Contains(key, Lower(model))

\* C22: the location multiplier is 1.00, times 1.05 when the fuel is diesel
\* and the age above 5 years, and times 1.03 when the model name holds a
\* high-demand keyword and the age lies in the band from 3 to 5 years; a
\* recommendation is appended exactly with each premium, and in every other
\* case the multiplier is exactly 1.00.
C22_Location ==
    Len(val.loc_outs) = 1 =>
        LET diesel == val.fuel = "Diesel" /\ val.age > 50000
            hub    == HighDemand(val.model) /\ val.age >= 30000 /\ val.age <= 50000
            recs   == lists[engine[1].recommendations]
        IN  /\ val.loc_outs[1] = DMul(IF diesel THEN Pct(105) ELSE DOne,
                                      IF hub THEN Pct(103) ELSE DOne)
            /\ HasTag(recs, "diesel_premium") <=> diesel
            /\ HasTag(recs, "tech_hub_premium") <=> hub
            /\ Len(recs) = (IF diesel THEN 1 ELSE 0) + (IF hub THEN 1 ELSE 0)
            /\ (~diesel /\ ~hub) => val.loc_outs[1] = DOne

\* C22 witness: a diesel Creta of exactly 5 years got 1.03 and the
\* high-demand recommendation only.
C22_Witness ==
    /\ val.loc_outs = <<Pct(103)>>
    /\ val.model = "Creta" /\ val.fuel = "Diesel" /\ val.age = 50000
    /\ Len(lists[engine[1].recommendations]) = 1

(***************************************************************************)
(* Claims on the market sentiment step.                                    *)
(***************************************************************************)
\* some entry of q is the reason itself or quotes it
QuotesReason(q, reason) ==
    \E i \in 1..Len(q) :
        \/ q[i] = reason
        \/ \E tag \in {q[i].tag} : q[i] = Quote(tag, reason)

\* the four factors of the call's vehicle, as the analyzer gives them
SentimentFactors(k) ==
    <<get_fuel_type_sentiment(k.vehicle.fuel_type, k.env.today.year),
      get_segment_sentiment(k.vehicle.model),
      get_brand_resale_multiplier(k.vehicle.make),
      get_economic_factor(k.vehicle.year)>>

SentimentProduct(fs) ==
    DMul(DMul(DMul(fs[1].multiplier, fs[2].multiplier), fs[3].multiplier), fs[4].multiplier)

\* the final FMV of the returned call k is its location-adjusted value times
\* the four factors, or the location-adjusted value when sentiment is off
SentimentValue(k) ==
    k.loc.final_fmv =
        IF k.env.modules.market_sentiment
        THEN DMul(k.loc.value_after_location, SentimentProduct(SentimentFactors(k)))
        ELSE k.loc.value_after_location

\* each of the four reasons is in one of the two returned lists
SentimentReasons(k) ==
    \A i \in 1..4 :
        \/ QuotesReason(k.returned.recommendations, SentimentFactors(k)[i].reason)
        \/ QuotesReason(k.returned.warnings, SentimentFactors(k)[i].reason)

\* C23: with market sentiment enabled the final FMV is the location-adjusted
\* value times the fuel-type, segment, brand and economic (purchase year)
\* multipliers and each of the four factors has its reason in the returned
\* recommendations or warnings; with it disabled the final FMV is the
\* location-adjusted value.
C23_Sentiment ==
    Self(1).pc = "done" =>
        /\ SentimentValue(Self(1))
        /\ Self(1).env.modules.market_sentiment => SentimentReasons(Self(1))

\* the part of C23 on the value alone
C23_Value == Self(1).pc = "done" => SentimentValue(Self(1))

\* of the four reasons, the ones of fuel type, segment and brand are returned
C23_ThreeReasons ==
    (Self(1).pc = "done" /\ Self(1).env.modules.market_sentiment) =>
        \A i \in 1..3 :
            QuotesReason(Self(1).returned.recommendations, SentimentFactors(Self(1))[i].reason)

(***************************************************************************)
(* SpecRoad: calculate_on_road_price called for two ex-showroom prices     *)
(* p1 < p2 with one year and one state.                                    *)
(***************************************************************************)
RoadPrices == {450000, 499999, 500000, 502000, 999999, 1000000, 1004000}
\* 2010 and 2026 are not in the schedules
RoadYears == {2010, 2015, 2018, 2021, 2025, 2026}
RoadStates == {"telangana", "Telangana", "karnataka"}

InitRoad ==
    \E p1 \in RoadPrices, p2 \in RoadPrices, year \in RoadYears, state \in RoadStates :
        /\ p1 < p2
        /\ val = [ex |-> <<p1, p2>>, year |-> year, state |-> state, outs |-> <<>>]
        /\ dep = Idle
        /\ odo = Idle
        /\ cond = Idle
        /\ txn = Idle
        /\ InitEngines

CallOnRoad ==
    /\ Len(val.outs) < 2
    /\ val' = [val EXCEPT !.outs =
                 Append(@, calculate_on_road_price(DInt(val.ex[Len(val.outs) + 1]),
                                                   val.year, val.state))]
    /\ UNCHANGED <<lists, engine, dep, odo, cond, txn>>

NextRoad == CallOnRoad

SpecRoad == InitRoad /\ [][NextRoad]_vars

(***************************************************************************)
(* Claims on the on-road price.                                            *)
(***************************************************************************)
RoadCalls == 1..Len(val.outs)
InTelangana == Lower(val.state) = "telangana"
InSchedule == val.year \in DOMAIN TELANGANA_TAX_RATES

\* the road tax of call k is the ex-showroom price times rate
TaxedAt(k, rate) == val.outs[k].breakdown.road_tax = DMul(DInt(val.ex[k]), rate)

\* C24 as stated: the road tax is charged at the rate of the schedule entry
\* for the year and state, and at exactly 12% of the ex-showroom price
\* whenever the year or the state is absent from the schedule.
C24_DefaultTwelve ==
    \A k \in RoadCalls :
        IF InTelangana /\ InSchedule
        THEN TaxedAt(k, TELANGANA_TAX_RATES[val.year])
        ELSE TaxedAt(k, Pct(12))

\* C24: for Telangana the road tax is charged at the rate of the schedule
\* entry for the year, and at the rate of the 2025 entry, 12.5%, when the
\* year is absent from the schedule; for any other state it is exactly 12%
\* of the ex-showroom price, whatever the year.
C24_RoadTax ==
    \A k \in RoadCalls :
        IF ~InTelangana THEN TaxedAt(k, Pct(12))
        ELSE IF InSchedule THEN TaxedAt(k, TELANGANA_TAX_RATES[val.year])
        ELSE TaxedAt(k, Bp(1250))

C24_Witness ==
    /\ Len(val.outs) = 2
    /\ val.year = 2026
    /\ val.state = "Telangana"
    /\ val.ex[1] = 500000
    /\ val.outs[1].breakdown.road_tax = DInt(62500)

\* the insurance band of an ex-showroom price
InsuranceBand(p) == IF p < 500000 THEN 1 ELSE IF p < 1000000 THEN 2 ELSE 3

\* the components of the breakdown of call k add up to the total
ComponentsSum(k) ==
    LET b == val.outs[k].breakdown
        sum == DAdd(b.insurance,
                    DAdd(DInt(b.registration + b.smart_card + b.cess + b.other_charges),
                         DAdd(b.road_tax, b.ex_showroom)))
    IN  /\ b.total_on_road = sum
        /\ val.outs[k].on_road_price = sum

\* C29 as stated: for a fixed year and state the on-road price is strictly
\* increasing in the ex-showroom price, across the insurance bands at
\* 500,000 and 1,000,000 too, and the total is the sum of the components.
C29_Increasing ==
    /\ \A k \in RoadCalls : ComponentsSum(k)
    /\ Len(val.outs) = 2 => DLt(val.outs[1].on_road_price, val.outs[2].on_road_price)

\* C29: for a fixed year and state the on-road price is strictly increasing
\* in the ex-showroom price as long as the two prices are in the same
\* insurance band (below 500,000, from 500,000 to below 1,000,000, from
\* 1,000,000), and the total is the sum of the components of the breakdown.
C29_OnRoad ==
    /\ \A k \in RoadCalls : ComponentsSum(k)
    /\ (Len(val.outs) = 2 /\ InsuranceBand(val.ex[1]) = InsuranceBand(val.ex[2])) =>
           DLt(val.outs[1].on_road_price, val.outs[2].on_road_price)

C29_Witness ==
    /\ Len(val.outs) = 2
    /\ val.ex = <<500000, 502000>>
    /\ val.year = 2026
    /\ InTelangana
    /\ DLt(val.outs[1].on_road_price, val.outs[2].on_road_price)
    /\ val.outs[1].on_road_price = DInt(588850)

(***************************************************************************)
(* Claims on the shares of the condition score.                            *)
(***************************************************************************)
\* the sub-score of a category, counted up to the category's maximum
Share(sub_score, maximum) == MinOf(sub_score, maximum)

\* the five sub-scores of call k, each counted up to its maximum
SharesOf(k) ==
    LET s == cond.outs[k].sub
    IN  Share(s.engine, 35) + Share(s.body, 25) + Share(s.mechanical, 15)
          + Share(s.comfort, 15) + Share(s.doc, 10)

\* C25: the condition score is the sum over the five categories of
\* min(sub-score, maximum), the maxima being 35 (engine/transmission),
\* 25 (body/frame), 15 (mechanical), 15 (comfort) and 10 (documentation),
\* clamped to [0,100]; no category has a sub-score above its maximum and the
\* score is in [0,100] for every record, frame damage with every other field
\* at its worst and strings outside the vocabularies included.
C25_Shares ==
    \A k \in 1..Len(cond.outs) :
        LET s == cond.outs[k].sub
        IN  /\ cond.outs[k].score = MaxOf(0, MinOf(100, SharesOf(k)))
            /\ s.engine <= 35 /\ s.body <= 25 /\ s.mechanical <= 15
            /\ s.comfort <= 15 /\ s.doc <= 10
            /\ cond.outs[k].score >= 0
            /\ cond.outs[k].score <= 100

\* C25 witness: the record with every field at its worst was scored without
\* and with frame damage; with it the sub-scores add up to -20 and the score
\* is 0.
C25_Witness ==
    /\ Len(cond.outs) = 2
    /\ CondInput(2) = WorstInspection
    /\ cond.outs[2].sub.engine = -20
    /\ SharesOf(2) = -20
    /\ cond.outs[2].score = 0
    /\ cond.outs[1].score = 5

(***************************************************************************)
(* Claims on the depreciation breakdown.                                   *)
(***************************************************************************)
DepCalls == 1..Len(dep.outs)

\* the keys of the breakdown of call k in insertion order
DepKeys(k) == [i \in 1..Len(dep.outs[k].breakdown) |-> dep.outs[k].breakdown[i].key]

\* the keys year_0_1, year_2, ..., year_<n>
FullKeys(n) == [i \in 1..n |-> Key(i, FALSE)]

\* C26: at the ages exactly 1, 3 and 5 the breakdown keys are exactly
\* year_0_1; year_0_1, year_2, year_3; and year_0_1, year_2, ..., year_5,
\* with no entry, full or partial, for the next bracket; and at every age the
\* breakdown holds at most one "_partial" entry, which is the last one in
\* insertion order.
C26_Boundaries ==
    \A k \in DepCalls :
        /\ dep.ages[k] = 10000 => DepKeys(k) = FullKeys(1)
        /\ dep.ages[k] = 30000 => DepKeys(k) = FullKeys(3)
        /\ dep.ages[k] = 50000 => DepKeys(k) = FullKeys(5)
        /\ \A i \in 1..Len(dep.outs[k].breakdown) :
              DepKeys(k)[i].partial => i = Len(dep.outs[k].breakdown)

\* C26 witness: the ages exactly 3 and, with a part of year 6 left, 5.25 have
\* been depreciated: three full entries, and five with year_6_partial last.
C26_Witness ==
    /\ Len(dep.outs) = 2
    /\ dep.ages = <<30000, 52500>>
    /\ DepKeys(1) = FullKeys(3)
    /\ DepKeys(2) = Append(FullKeys(5), Key(6, TRUE))

\* the sum of the amounts of a breakdown
RECURSIVE SumAmounts(_)
SumAmounts(bd) == IF bd = <<>> THEN DZero ELSE DAdd(bd[1].amount, SumAmounts(Tail(bd)))

\* pct is part / whole * 100 with the quotient cut after 16 decimal places
IsPercentage(pct, part, whole) ==
    /\ DLe(DMul(pct, whole), DMul(part, DInt(100)))
    /\ DLt(DMul(part, DInt(100)), DMul(DAdd(pct, DN(100, 4)), whole))

\* C30: for every age >= 0 and base price p > 0 the amounts of the breakdown
\* are all non-negative and add up to p minus the depreciated value, and the
\* depreciation percentage is (p - depreciated value) / p * 100 and lies in
\* [0, 100).
C30_Breakdown ==
    \A k \in DepCalls :
        LET r == dep.outs[k]
        IN  /\ \A i \in 1..Len(r.breakdown) : DLe(DZero, r.breakdown[i].amount)
            /\ SumAmounts(r.breakdown) = DSub(DepBase, r.value)
            /\ IsPercentage(r.depreciation_percentage, DSub(DepBase, r.value), DepBase)
            /\ DLe(DZero, r.depreciation_percentage)
            /\ DLt(r.depreciation_percentage, DInt(100))

\* C30 witness: 700,000 depreciated at age 0, nothing taken off, and at age
\* 3: 119,000 + 63,910 + 56,879.90 taken off, 34.2557%.
C30_Witness ==
    /\ Len(dep.outs) = 2
    /\ dep.price = 700000
    /\ dep.ages = <<0, 30000>>
    /\ dep.outs[1].depreciation_percentage = DZero
    /\ SumAmounts(dep.outs[1].breakdown) = DZero
    /\ SumAmounts(dep.outs[2].breakdown) = DAdd(DInt(239789), Pct(90))
    /\ dep.outs[2].depreciation_percentage = DN(342557, 1)

(***************************************************************************)
(* Claims on the usage multiplier of two readings.                         *)
(***************************************************************************)
\* the second reading (the higher one) has no higher multiplier
NotRewarded == DLe(odo.outs[2].ret.usage_factor, odo.outs[1].ret.usage_factor)

\* C28 as stated: for a fixed age and fuel type the usage multiplier is
\* non-increasing in the odometer reading over all readings, across the
\* tamper threshold actual = age x 2000 too.
C28_NonIncreasing == Len(odo.outs) = 2 => NotRewarded

\* C28: for a fixed age and fuel type the usage multiplier is non-increasing
\* in the odometer reading among readings on the same side of the tamper
\* threshold actual = age x 2000: both below it, or both at or above it.
C28_SameSide ==
    (Len(odo.outs) = 2 /\ (OdoTamper(1) <=> OdoTamper(2))) => NotRewarded

\* C28 witness: a petrol car of 3 years read at 6,000 km, the threshold, and
\* at 23,000 km: premiums of 4.05% and 1.5%; and no tamper trigger.
C28_Witness ==
    /\ Len(odo.outs) = 2
    /\ odo.age = 30000 /\ odo.fuel = "Petrol"
    /\ odo.readings = <<6000, 23000>>
    /\ ~OdoTamper(1) /\ ~OdoTamper(2)
    /\ odo.outs[1].ret.usage_factor = Bp(10405)
    /\ odo.outs[2].ret.usage_factor = Bp(10150)

(***************************************************************************)
(* Claims on the steps of one valuation call.                              *)
(***************************************************************************)
IsPrefix(s, t) == Len(s) <= Len(t) /\ SubSeq(t, 1, Len(s)) = s

\* the step of the pipeline that writes an entry: 1 base-price resolution,
\* 2 usage adjustment, 3 condition scoring, 4 location factor, 5 market
\* sentiment, 6 final findings; 0 for an entry of no step
StageOf(tag) ==
    CASE tag \in {"current_ex_showroom", "segment_estimate", "current_on_road", "components",
                  "on_road_unavailable_buffer", "estimated_from_current",
                  "estimated_not_in_database", "historical_segment", "calculated_on_road",
                  "on_road_unavailable", "historical_database", "historical_database_parts",
                  "discontinued_model", "current_production"} -> 1
      [] tag \in {"tamper", "barrier_100k", "low_mileage"} -> 2
      [] tag \in {"frame_damage", "engine_smoke", "tires_worn", "electrical",
                  "accident_history"} -> 3
      [] tag \in {"diesel_premium", "tech_hub_premium"} -> 4
      [] tag \in {"market_sentiment", "fuel_type", "segment", "brand"} -> 5
      [] tag \in {"many_owners", "excellent_condition", "fair_condition"} -> 6
      [] OTHER -> 0

InPipelineOrder(q) ==
    /\ \A i \in 1..Len(q) : StageOf(q[i].tag) >= 1
    /\ \A i \in 1..Len(q) : \A j \in i..Len(q) : StageOf(q[i].tag) <= StageOf(q[j].tag)

\* the two lists of the engine of call c as they read now
WarningsNow(c) == lists[engine[Self(c).e].warnings]
RecommendationsNow(c) == lists[engine[Self(c).e].recommendations]

\* a step of call c after its reset: the lists it leaves start with the lists
\* it found and are in pipeline order, and every local assigned before
\* the step keeps its value
ForwardStep(c) ==
    /\ IsPrefix(WarningsNow(c), WarningsNow(c)')
    /\ IsPrefix(RecommendationsNow(c), RecommendationsNow(c)')
    /\ InPipelineOrder(WarningsNow(c)')
    /\ InPipelineOrder(RecommendationsNow(c)')
    /\ \A f \in DOMAIN Self(c).loc :
          /\ f \in DOMAIN Self(c)'.loc
          /\ Self(c)'.loc[f] = Self(c).loc[f]
    /\ Self(c)'.pc = "done" =>
          /\ Self(c)'.returned.warnings = WarningsNow(c)
          /\ Self(c)'.returned.recommendations = RecommendationsNow(c)
          /\ Self(c)'.returned.base_price = Round2(Self(c).loc.base_price)
          /\ Self(c)'.returned.depreciated_value = Round2(Self(c).loc.depreciated_value)
          /\ Self(c)'.returned.usage_adjusted_value = Round2(Self(c).loc.usage_adjusted_value)
          /\ Self(c)'.returned.condition_adjusted_value
                 = Round2(Self(c).loc.condition_adjusted_value)

\* C27: within one valuation call, after the initial reset the warnings and
\* recommendations lists only grow by appending, so that every intermediate
\* state of a list is a prefix of its final state; the entries are in
\* pipeline order (base-price resolution, usage adjustment, condition
\* scoring, location factor, market sentiment, final findings); and no step
\* changes a numeric output produced by an earlier step (base price,
\* depreciated value, usage-adjusted value, condition-adjusted value).
C27_Forward ==
    [][\A c \in Calls : Self(c).pc \notin {"reset", "off", "done"} => ForwardStep(c)]_vars

\* C27 witness: a returned call whose lists hold entries of the base-price
\* resolution, the usage adjustment, the condition scoring and the market
\* sentiment step.
C27_Witness ==
    /\ Self(1).pc = "done"
    /\ HasTag(Self(1).returned.recommendations, "segment_estimate")
    /\ HasTag(Self(1).returned.recommendations, "low_mileage")
    /\ HasTag(Self(1).returned.recommendations, "brand")
    /\ HasTag(Self(1).returned.warnings, "tamper")
    /\ HasTag(Self(1).returned.warnings, "frame_damage")
    /\ Len(Self(1).returned.warnings) >= 3

=============================================================================
